---- MODULE Spec2Model ----
(***************************************************************************)
(* Verification model of the evolution control plane of ai-genesis.        *)
(*                                                                         *)
(* Two specifications share this module:                                   *)
(*   SpecCycle : the cycle mutex (EvolutionCycleManager), the Architect's  *)
(*               handle_trigger and the Coder's handle_plan, over a        *)
(*               Redis lock with TTL and a discrete wall clock;            *)
(*   SpecPatch : the Patcher's _handle_mutation_ready, the Trait Registry, *)
(*               the Gatekeeper and the Watcher's fitness rollback.        *)
(*                                                                         *)
(* Granularity.  Handlers are asyncio tasks created per message            *)
(* (event_bus.py:131), so two invocations of the same handler interleave   *)
(* at their awaits.  One action is the code between two effects on shared  *)
(* state (a Redis command, a bus publish, an LLM call returning).  Feed    *)
(* publishes touch nothing but the feed log and are folded into the        *)
(* neighbouring step.  The bus is one FIFO: the listener thread reads one  *)
(* pub/sub connection and schedules the dispatches in arrival order.       *)
(***************************************************************************)
EXTENDS Integers, Sequences, FiniteSets, TLC

\* ---------------------------------------------------------------- bounds
MaxTriggers == 2
MaxClock == 4
MaxMutations == 2
MaxSnapshots == 2
MaxCalls == 3
MaxHeld == 1
MaxEntities == 2
MaxTicks == 2
MaxBusyMs == 7
MaxRuns == 2
MaxPublished == 3
MaxTelemetry == 2
MaxWatchSteps == 4
MaxProposals == 6
MaxConcurrent == 2
MaxLoopTicks == 2
MaxMoves == 2

\* ------------------------------------------------------ program constants
MinTtlSec == 60
TtlFactor == 3
evolution_cooldown_sec == 60

Triggers == 1..MaxTriggers
NoTrigger == 0

\* The wall clock advances in steps of the shortest possible lock TTL.
ClockStepSec == MinTtlSec
\* settings.evolution_cooldown_sec: the default and a small override.
CooldownChoices == {evolution_cooldown_sec \div 6, evolution_cooldown_sec}

STAGE_PLANNING == "planning"
STAGE_CODING == "coding"
STAGE_PATCHING == "patching"
STAGE_DONE == "done"
STAGE_FAILED == "failed"

VARIABLES
    now,          \* wall clock, seconds
    cooldown,     \* settings.evolution_cooldown_sec of this run
    lock,         \* Redis key evo:cycle:lock
    record,       \* Redis hash evo:cycle:current
    bus,          \* messages published and not yet dispatched (FIFO)
    nextTrigger,  \* next trigger id the Watcher / manual API will publish
    archPc,       \* position of handle_trigger(t)
    coderPc,      \* position of handle_plan for the plan of trigger t
    startResult,  \* what start_cycle(t) returned
    lockSeen,     \* whether evo:cycle:lock existed when start_cycle(t) ran
    acquiredAt,   \* wall-clock time at which start_cycle(t) acquired
    llmResult,    \* what generate_json returned to _create_plan(t)
    plans,        \* triggers whose Evolution Plan was published
    ready,        \* triggers whose Mutation Ready was published
    feed          \* feed messages published

VARIABLES
    mutName,          \* trait_name of mutation m ("" until it is created)
    mutCode,          \* source code of mutation m, by its behaviour
    mutOrigin,        \* "external" (propose_mutation) or "coder" (handle_plan)
    nextMutation,     \* next mutation id to be generated
    status,           \* field status of the Redis hash evo:mutation:{id}
    queue,            \* Redis list agent:mutation:queue
    gkPc,             \* position of the Gatekeeper's _process_queue loop
    gkCur,            \* mutation the Gatekeeper's _handle_mutation works on
    pending,          \* MutationGatekeeper._pending
    files,            \* mutations whose trait file is in mutations_dir
    patchPc,          \* position of _handle_mutation_ready for mutation m
    registry,         \* DynamicRegistry: _traits and _version
    registry_version, \* RuntimePatcher._registry_version
    usedHashes,       \* Redis set evo:mutation:hashes
    failedEvents,     \* Mutation Failed events published, in order
    rollbacks,        \* mutations for which a Mutation Rollback was published
    rbPc,             \* position of the Gatekeeper's _handle_rollback for m
    snapTick,         \* tick of the last snapshot the engine published
    prev_snapshot,    \* WatcherAgent._prev_snapshot
    pending_fitness   \* WatcherAgent._pending_fitness, in insertion order

cycleOnly == <<now, cooldown, lock, record, nextTrigger, archPc, coderPc,
               startResult, lockSeen, acquiredAt, llmResult, plans, ready, feed>>

patchOnly == <<mutName, mutCode, mutOrigin, nextMutation, status, queue, gkPc,
               gkCur, pending, files, patchPc, registry, registry_version,
               usedHashes, failedEvents, rollbacks, rbPc, snapTick,
               prev_snapshot, pending_fitness>>

\* The Trait Registry as an object graph, and the engine's use of it.
VARIABLES
    max_active_traits,      \* settings.max_active_traits of this run
    dicts,                  \* the dict objects DynamicRegistry has created
    traits_ref,             \* DynamicRegistry._traits: the dict it refers to
    version,                \* DynamicRegistry._version
    classes,                \* the trait classes loaded so far, in load order
    callCount,              \* calls of register / unregister made so far
    last_call,              \* the last such call and what it returned
    held,                   \* snapshots a caller of get_snapshot still holds
    known_registry_version, \* CoreEngine._known_registry_version
    entity_state,           \* state of the entity in each slot of the store
    entity_traits,          \* BaseEntity.traits: trait instances, by class
    tickPc                  \* stage of the tick the engine is at

engineOnly == <<max_active_traits, dicts, traits_ref, version, classes,
                callCount, last_call, held, known_registry_version,
                entity_state, entity_traits, tickPc>>

\* Callers of the cycle manager's API, one call after the other.
VARIABLES
    mgrPc,     \* position of caller t in the manager call it is making
    finished,  \* the last of complete_cycle / fail_cycle caller t finished
    released   \* a complete or fail has ended and no start_cycle has run since

mgrOnly == <<mgrPc, finished, released>>

\* The world of one run: a molbot that carries one trait, a molbot without
\* traits, one predator slot and one resource, on the line y = const.
VARIABLES
    world_stage,         \* stage of the tick CoreEngine.run is at
    ticks,               \* ticks completed
    trait_kind,          \* what the execute body of the molbot's trait does
    pos_x,               \* BaseEntity.x
    ent_energy,          \* BaseEntity.energy
    ent_max_energy,      \* BaseEntity.max_energy, when it is a number
    ent_max_energy_type, \* the Python type of BaseEntity.max_energy
    ent_state,           \* BaseEntity.state; "absent" = not in the store
    infected,            \* BaseEntity.infected
    deactivated,         \* the trait's name is in deactivated_traits
    trait_energy_gain,   \* BaseEntity._trait_energy_gain
    energy_snapshot,     \* _energy_snapshot of the update that is under way
    energy_pre,          \* energy each entity had when the tick began
    busy_ms,             \* time the running execute call has held the loop
    resources            \* Environment._resources, by x position

worldOnly == <<world_stage, ticks, trait_kind, pos_x, ent_energy,
               ent_max_energy, ent_max_energy_type, ent_state, infected,
               deactivated, trait_energy_gain, energy_snapshot, energy_pre,
               busy_ms, resources>>

\* One entity under TraitExecutor.execute_traits, tick after tick.
VARIABLES
    ex_traits,       \* BaseEntity.traits: the class of each instance
    ex_deactivated,  \* BaseEntity.deactivated_traits
    ex_registry,     \* the items of DynamicRegistry._traits
    ex_idx,          \* position of the loop of execute_traits, 0 = not in it
    ex_elapsed,      \* loop time since tick_start of this execute_traits, ms
    ex_ran,          \* the class the step just taken executed, 0 = none
    ex_failed,       \* whether that execution timed out or raised
    ex_runs,         \* calls of execute_traits completed
    ex_pending       \* registry.version > CoreEngine._known_registry_version

executorOnly == <<ex_traits, ex_deactivated, ex_registry, ex_idx, ex_elapsed,
                  ex_ran, ex_failed, ex_runs, ex_pending>>


\* The EventBus of one process, from PUBLISH to the start of the handlers.
VARIABLES
    bus_published,  \* every message Redis received, in the order of receipt
    bus_wire,       \* messages Redis sent that the listener thread has not read
    loop_ready,     \* the ready queue of the asyncio event loop
    bus_observed,   \* per handler, the messages its invocations started on
    bus_active      \* handler invocations that started and have not returned

eventBusOnly == <<bus_published, bus_wire, loop_ready, bus_observed,
                  bus_active>>

\* The WatcherAgent of one process: its telemetry handler and its loop.
VARIABLES
    w_now,                       \* time.time(), seconds since the start
    w_cooldown,                  \* settings.evolution_cooldown_sec of this run
    last_trigger_time,           \* WatcherAgent._last_trigger_time
    last_periodic_trigger_time,  \* WatcherAgent._last_periodic_trigger_time
    w_pc,                        \* per telemetry event, where its handler is
    w_triggers                   \* Evolution Triggers published, in order

watcherOnly == <<w_now, w_cooldown, last_trigger_time,
                 last_periodic_trigger_time, w_pc, w_triggers>>

\* POST /mutations/propose of one agent from one address, and what the
\* Gatekeeper then does with the active counter.
VARIABLES
    rl_ip,      \* Redis ratelimit:ip:min:{client_ip}
    rl_hr,      \* Redis ratelimit:agent:hr:{agent_id}
    rl_active,  \* Redis ratelimit:active:{agent_id}
    prop_pc,    \* per proposal, where its request or its record is
    gk_busy     \* the proposal _handle_mutation is working on, 0 = none

proposeOnly == <<rl_ip, rl_hr, rl_active, prop_pc, gk_busy>>

\* The loop of CoreEngine.run, stage by stage.
VARIABLES
    tick_counter,  \* CoreEngine.tick_counter
    loop_ticks,    \* iterations of the loop begun in this run
    loop_pos,      \* the stage of this tick that runs next, 0 = asleep
    loop_ran,      \* the stages of this tick that ran and returned
    loop_raised,   \* the stage of this tick that raised, "" = none
    tick_errors    \* tick_error entries logged

loopOnly == <<tick_counter, loop_ticks, loop_pos, loop_ran, loop_raised,
              tick_errors>>

\* One entity in the plane, under BaseEntity.move.
VARIABLES
    mv_x,       \* BaseEntity.x, a float
    mv_y,       \* BaseEntity.y, a float
    mv_from_x,  \* x before the last call of move
    mv_from_y,  \* y before the last call of move
    mv_moves    \* calls of move made

moveOnly == <<mv_x, mv_y, mv_from_x, mv_from_y, mv_moves>>

\* The cycles of the evolution pipeline, from trigger to Patcher.
VARIABLES
    pipe_pc  \* per trigger, how far its cycle has come

pipeOnly == <<pipe_pc>>

\* The mutation files on disk and what was loaded from them (SpecLoad).
VARIABLES
    ld_file,      \* per mutation file path, the text on disk (NoFile: missing)
    ld_checked,   \* per path, the text the Patcher's validator last accepted
    ld_pc,        \* per path, how far the Patcher's handler has come
    ld_row,       \* per path, the source_code of its mutations row (NoFile: none)
    ld_active,    \* per path, whether the row is active (status applied)
    ld_registry   \* the texts the registered classes were loaded from

loadOnly == <<ld_file, ld_checked, ld_pc, ld_row, ld_active, ld_registry>>

\* The Watcher's fitness observation (SpecFitness).
VARIABLES
    fit_ticks,      \* snapshots received so far; the tick of the last one
    fit_prev,       \* _prev_snapshot: tick and count, or NoPrevSnapshot
    fit_pending,    \* _pending_fitness, in insertion order
    fit_applied,    \* mutations whose Mutation Applied was handled
    fit_run,        \* the _check_fitness call in progress
    fit_evals,      \* per mutation, how often it was evaluated
    fit_rollbacks   \* per mutation, Mutation Rollback events published

fitnessOnly == <<fit_ticks, fit_prev, fit_pending, fit_applied, fit_run,
                 fit_evals, fit_rollbacks>>

\* The Coder's handling of each Evolution Plan (SpecCoder).
VARIABLES
    cd_pc,        \* per plan, where handle_plan stands
    cd_code,      \* per plan, the source the LLM returned last
    cd_calls,     \* per plan, calls of _generate_code made
    cd_invalid,   \* per plan, sources that failed validation
    cd_retry_err, \* per plan, whether the retry carried previous_error
    cd_feed,      \* per plan, the feed actions published
    cd_ready      \* per plan, Mutation Ready events published

coderOnly == <<cd_pc, cd_code, cd_calls, cd_invalid, cd_retry_err, cd_feed,
               cd_ready>>

\* Mutation files and the registry's family retention (SpecRetention).
VARIABLES
    rt_disk,         \* mutation files on disk, as <<family, version>>
    rt_written,      \* per family, files written so far (the next version)
    rt_activated,    \* files whose mutation the Patcher has activated
    rt_family_files  \* DynamicRegistry._family_files: per family, its paths

retentionOnly == <<rt_disk, rt_written, rt_activated, rt_family_files>>

\* Trait failures and their report to the feed (SpecTraitError).
VARIABLES
    te_reported,  \* CoreEngine._reported_trait_errors
    te_reports,   \* per family, feed reports the callback has scheduled
    te_failures,  \* per family, executions that timed out or raised
    te_calls      \* calls of execute_trait made

traitErrorOnly == <<te_reported, te_reports, te_failures, te_calls>>

\* How entities die and how the reap counts them (SpecReap).
VARIABLES
    rp_state,       \* per entity: "alive", "dead" or "removed"
    rp_infected,    \* per entity, BaseEntity.infected
    rp_how,         \* per entity, what set its state to dead
    rp_counted,     \* per entity, the cause _handle_deaths counted it under
    rp_death_stats  \* CoreEngine.death_stats

reapOnly == <<rp_state, rp_infected, rp_how, rp_counted, rp_death_stats>>

\* Every variable group but loadOnly.
notLoad == <<cycleOnly, bus, patchOnly, engineOnly, mgrOnly, worldOnly,
             executorOnly, eventBusOnly, watcherOnly, proposeOnly, loopOnly,
             moveOnly, pipeOnly, fitnessOnly, coderOnly, retentionOnly,
             traitErrorOnly, reapOnly>>

\* Every variable group but fitnessOnly.
notFitness == <<cycleOnly, bus, patchOnly, engineOnly, mgrOnly, worldOnly,
                executorOnly, eventBusOnly, watcherOnly, proposeOnly,
                loopOnly, moveOnly, pipeOnly, loadOnly, coderOnly,
                retentionOnly, traitErrorOnly, reapOnly>>

\* Every variable group but coderOnly.
notCoder == <<cycleOnly, bus, patchOnly, engineOnly, mgrOnly, worldOnly,
              executorOnly, eventBusOnly, watcherOnly, proposeOnly, loopOnly,
              moveOnly, pipeOnly, loadOnly, fitnessOnly, retentionOnly,
              traitErrorOnly, reapOnly>>

\* Every variable group but retentionOnly.
notRetention == <<cycleOnly, bus, patchOnly, engineOnly, mgrOnly, worldOnly,
                  executorOnly, eventBusOnly, watcherOnly, proposeOnly,
                  loopOnly, moveOnly, pipeOnly, loadOnly, fitnessOnly,
                  coderOnly, traitErrorOnly, reapOnly>>

\* Every variable group but traitErrorOnly.
notTraitError == <<cycleOnly, bus, patchOnly, engineOnly, mgrOnly, worldOnly,
                   executorOnly, eventBusOnly, watcherOnly, proposeOnly,
                   loopOnly, moveOnly, pipeOnly, loadOnly, fitnessOnly,
                   coderOnly, retentionOnly, reapOnly>>

\* Every variable group but reapOnly.
notReap == <<cycleOnly, bus, patchOnly, engineOnly, mgrOnly, worldOnly,
             executorOnly, eventBusOnly, watcherOnly, proposeOnly, loopOnly,
             moveOnly, pipeOnly, loadOnly, fitnessOnly, coderOnly,
             retentionOnly, traitErrorOnly>>

\* Every variable group but watcherOnly.
notWatcher == <<cycleOnly, bus, patchOnly, engineOnly, mgrOnly, worldOnly,
                executorOnly, eventBusOnly, proposeOnly, loopOnly, moveOnly,
                pipeOnly, loadOnly, fitnessOnly, coderOnly, retentionOnly,
                traitErrorOnly, reapOnly>>

\* Every variable group but cycleOnly and pipeOnly.
notPipe == <<bus, patchOnly, engineOnly, mgrOnly, worldOnly, executorOnly,
             eventBusOnly, watcherOnly, proposeOnly, loopOnly, moveOnly,
             loadOnly, fitnessOnly, coderOnly, retentionOnly, traitErrorOnly,
             reapOnly>>

\* Every variable group but proposeOnly.
notPropose == <<cycleOnly, bus, patchOnly, engineOnly, mgrOnly, worldOnly,
                executorOnly, eventBusOnly, watcherOnly, loopOnly, moveOnly,
                pipeOnly, loadOnly, fitnessOnly, coderOnly, retentionOnly,
                traitErrorOnly, reapOnly>>

\* Every variable group but loopOnly.
notLoop == <<cycleOnly, bus, patchOnly, engineOnly, mgrOnly, worldOnly,
             executorOnly, eventBusOnly, watcherOnly, proposeOnly, moveOnly,
             pipeOnly, loadOnly, fitnessOnly, coderOnly, retentionOnly,
             traitErrorOnly, reapOnly>>

\* Every variable group but moveOnly.
notMove == <<cycleOnly, bus, patchOnly, engineOnly, mgrOnly, worldOnly,
             executorOnly, eventBusOnly, watcherOnly, proposeOnly, loopOnly,
             pipeOnly, loadOnly, fitnessOnly, coderOnly, retentionOnly,
             traitErrorOnly, reapOnly>>

\* Every variable group but eventBusOnly.
notEventBus == <<cycleOnly, bus, patchOnly, engineOnly, mgrOnly, worldOnly,
                 executorOnly, watcherOnly, proposeOnly, loopOnly, moveOnly,
                 pipeOnly, loadOnly, fitnessOnly, coderOnly, retentionOnly,
                 traitErrorOnly, reapOnly>>

\* Every variable group but executorOnly.
notExecutor == <<cycleOnly, bus, patchOnly, engineOnly, mgrOnly, worldOnly,
                 eventBusOnly, watcherOnly, proposeOnly, loopOnly, moveOnly,
                 pipeOnly, loadOnly, fitnessOnly, coderOnly, retentionOnly,
                 traitErrorOnly, reapOnly>>

\* The variable groups of the specifications that come after SpecWorld.
laterOnly == <<executorOnly, eventBusOnly, watcherOnly, proposeOnly, loopOnly,
               moveOnly, pipeOnly, loadOnly, fitnessOnly, coderOnly,
               retentionOnly, traitErrorOnly, reapOnly>>

\* What the specifications other than SpecCycle and SpecPatch add.
othersOnly == <<engineOnly, mgrOnly, worldOnly, laterOnly>>

vars == <<cycleOnly, bus, patchOnly, othersOnly>>

\* ----------------------------------------------------------- Redis model
NoLock == [holder |-> NoTrigger, expiresAt |-> 0]
NoTtl == -1
NoRecord == [exists |-> FALSE, trigger_id |-> NoTrigger, stage |-> "",
             error |-> FALSE, expiresAt |-> NoTtl]

Max(a, b) == IF a > b THEN a ELSE b

\* self._ttl_sec = max(60, settings.evolution_cooldown_sec * 3)
ttl_sec_plus(c) == MinTtlSec + c * TtlFactor
ttl_sec(c) == Max(MinTtlSec, c * TtlFactor)

\* SET key value NX: succeeds only when the key does not exist.
set_nx_always(l) == TRUE
set_nx(l) == l.holder = NoTrigger

\* HSET on evo:cycle:current: creates the hash when missing (no TTL), merges
\* the mapping otherwise and keeps the TTL.
hset_stage_if_exists(r, stage) ==
    IF r.exists THEN [r EXCEPT !.stage = stage] ELSE r
hset_stage(r, stage) ==
    [r EXCEPT !.exists = TRUE, !.stage = stage]

\* Redis drops a key once its expiry time is reached.
ExpireLock(l, t) ==
    IF l.holder # NoTrigger /\ t >= l.expiresAt THEN NoLock ELSE l
ExpireRecord(r, t) ==
    IF r.exists /\ r.expiresAt # NoTtl /\ t >= r.expiresAt THEN NoRecord ELSE r

\* _create_plan returns None when generate_json returned None (timeout,
\* connection error, malformed JSON) or the required fields are missing.
LlmPlanResults == {"none", "missing_fields", "ok"}
create_plan_accepts_all(result) == result # "none"
create_plan_ok(result) == result = "ok"

Feed(agent, action, id) == [agent |-> agent, action |-> action, id |-> id]

\* ------------------------------------------- mutations, registry, fitness
Mutations == 1..MaxMutations
\* _validate_mutation publishes its failures under the id "unknown".
UnknownId == 0
Ids == {UnknownId} \cup Mutations

\* Trait names as the proposers spell them, and DynamicRegistry's key
\* (canonical_name strips the Trait suffix and converts to snake_case).
TraitNames == {"EnergyPulseTrait"}
canonical_name(name) ==
    CASE name = "EnergyPulseTrait" -> "energy_pulse"
      [] name = "Swarm" -> "swarm"
      [] name = "EnergyPulse" -> "energy_pulse"
      [] name = "Shield" -> "shield"
      [] OTHER -> name
Families == {canonical_name(n) : n \in TraitNames}

\* Trait sources, by what the pipeline does with them:
\*   plain             passes the validator, imports, defines the class;
\*   banned_call       fails the validator's AST checks;
\*   raises_on_import  passes the validator, exec_module raises (a module
\*                     that unbinds its class name again ends the same
\*                     way: _load_module returns None);
\*   rebinds_class     passes the validator, the class name is rebound to
\*                     an instance at the end of the module.
Codes == {"plain", "banned_call", "raises_on_import", "rebinds_class"}
NoCode == ""

\* CodeValidator.validate, levels 1-5 (AST) and level 6 (deduplication).
ast_valid(code) == code # "banned_call"
is_valid(code, used) == ast_valid(code) /\ code \notin used

\* _load_module returns the class, or None when exec_module raises or the
\* class name is not an attribute of the module.
load_module_ok(code) == code # "raises_on_import"

\* DynamicRegistry.register reads cls.__name__ for its log line after it has
\* replaced _traits and incremented _version; an instance has no __name__.
register_raises(code) == code = "rebinds_class"

\* The used set after step 3 of _handle_mutation_ready: mark_as_used comes
\* after registry.register and register_source, so an exception in register
\* leaves the set alone.
hashes_marked_before_register(used, code, raised) == used \cup {code}
hashes_after_register(used, code, raised) ==
    IF raised THEN used ELSE used \cup {code}

\* DynamicRegistry: _traits maps a family to the class registered for it
\* (named here by the mutation that defined it), _version counts changes.
NoClass == 0
EmptyRegistry == [traits |-> [f \in Families |-> NoClass], version |-> 0]
register(reg, name, cls) ==
    [traits |-> [reg.traits EXCEPT ![canonical_name(name)] = cls],
     version |-> reg.version + 1]

\* MutationGatekeeper: "if mutation_id not in self._pending: return".
in_pending_always(p, id) == TRUE
in_pending(p, id) == id \in p

\* Watcher._check_fitness: delta = (count - baseline) / baseline and the
\* rollback test delta < -threshold, for baseline > 0, in integers.
fitness_rollback_threshold_pct == 15
rolls_back(count, baseline) ==
    (count - baseline) * 100 < -(fitness_rollback_threshold_pct * baseline)

\* entity_count of the snapshots the engine publishes.
EntityCounts == {0, 70, 100}
NoSnapshot == [tick |-> 0, entity_count |-> 0]

Msg(ch, id, arg) == [ch |-> ch, id |-> id, arg |-> arg]
MutationFailed(id, stage) == [mutation_id |-> id, stage |-> stage]

\* The state of each half of the model while the other half is checked.
CycleAtRest ==
    /\ now = 0
    /\ cooldown = evolution_cooldown_sec
    /\ lock = NoLock
    /\ record = NoRecord
    /\ nextTrigger = 1
    /\ archPc = [t \in Triggers |-> "idle"]
    /\ coderPc = [t \in Triggers |-> "idle"]
    /\ startResult = [t \in Triggers |-> "none"]
    /\ lockSeen = [t \in Triggers |-> FALSE]
    /\ acquiredAt = [t \in Triggers |-> -1]
    /\ llmResult = [t \in Triggers |-> "pending"]
    /\ plans = {}
    /\ ready = {}
    /\ feed = {}

PatchAtRest ==
    /\ mutName = [m \in Mutations |-> ""]
    /\ mutCode = [m \in Mutations |-> NoCode]
    /\ mutOrigin = [m \in Mutations |-> "none"]
    /\ nextMutation = 1
    /\ status = [i \in Ids |-> "absent"]
    /\ queue = <<>>
    /\ gkPc = "idle"
    /\ gkCur = UnknownId
    /\ pending = {}
    /\ files = {}
    /\ patchPc = [m \in Mutations |-> "idle"]
    /\ registry = EmptyRegistry
    /\ registry_version = 0
    /\ usedHashes = {}
    /\ failedEvents = <<>>
    /\ rollbacks = {}
    /\ rbPc = [m \in Mutations |-> "idle"]
    /\ snapTick = 0
    /\ prev_snapshot = NoSnapshot
    /\ pending_fitness = <<>>

\* ------------------------------------- registry objects and trait lists
\* settings.max_active_traits: two small overrides of the default.
MaxActiveTraitsChoices == {1, 2}

\* engine.py: _SPAWN_BATCH_SIZE.
SPAWN_BATCH_SIZE == 2

\* A registration is the trait_name of the Mutation Ready and the name of
\* the class the validator found in the source.  The Coder sends the class
\* name as trait_name (coder.py:290); a proposal carries a snake_case
\* trait_name of its own next to the source (routes_agents.py:215-224).
TraitClassNames == {"EnergyPulseTrait", "Swarm"}
ProposedNames == {"energy_pulse"}
Registrations ==
    {<<n, n>> : n \in TraitClassNames} \cup (ProposedNames \X TraitClassNames)
RegistryNames == TraitClassNames \cup ProposedNames

\* A dict is the sequence of its items in insertion order.
Keys(d) == {d[i].key : i \in 1..Len(d)}
dict_get(d, k) == d[CHOOSE i \in 1..Len(d) : d[i].key = k].cls
dict_set(d, k, v) ==
    IF k \in Keys(d)
    THEN [i \in 1..Len(d) |->
            IF d[i].key = k THEN [key |-> k, cls |-> v] ELSE d[i]]
    ELSE Append(d, [key |-> k, cls |-> v])
dict_del(d, k) == SelectSeq(d, LAMBDA item : item.key # k)

\* self._traits.copy(): a new dict object with the same items.  Both are
\* given the heap of dict objects and answer with the heap and a reference.
dict_alias(heap, ref) == [heap |-> heap, ref |-> ref]
dict_copy(heap, ref) == [heap |-> Append(heap, heap[ref]), ref |-> Len(heap) + 1]

\* unregister: "if canon not in self._traits: return False".
registered_always(d, canon) == TRUE
registered(d, canon) == canon \in Keys(d)

NoCall == [op |-> "none", key |-> "", returned |-> FALSE]

Entities == 1..MaxEntities
Living(state) == {e \in Entities : state[e] = "alive"}

\* _apply_new_registry_traits: entity_canonical[canonical_name(class name)]
\* is the index of the last trait of that family, 0 when there is none.
entity_canonical(cls, ts, family) ==
    LET S == {i \in 1..Len(ts) : canonical_name(cls[ts[i]].name) = family}
    IN IF S = {} THEN 0 ELSE CHOOSE i \in S : \A j \in S : j <= i

\* _apply_new_registry_traits, the loop over the snapshot's items for one
\* entity: replace in place the trait of the item's family, else append
\* while the list is under the cap; a constructor that raises leaves the
\* list as it is.  entity_canonical is built once, before the loop.
RECURSIVE apply_items(_, _, _, _, _)
apply_items(cls, cap, orig, ts, items) ==
    IF items = <<>> THEN ts
    ELSE LET item == Head(items)
             idx == entity_canonical(cls, orig, item.key)
             raises == cls[item.cls].init_raises
             next == IF idx # 0
                     THEN (IF raises THEN ts ELSE [ts EXCEPT ![idx] = item.cls])
                     ELSE IF Len(ts) < cap
                     THEN (IF raises THEN ts ELSE Append(ts, item.cls))
                     ELSE ts
         IN apply_items(cls, cap, orig, next, Tail(items))

EngineAtRest ==
    /\ max_active_traits = 2
    /\ dicts = << <<>> >>
    /\ traits_ref = 1
    /\ version = 0
    /\ classes = <<>>
    /\ callCount = 0
    /\ last_call = NoCall
    /\ held = <<>>
    /\ known_registry_version = 0
    /\ entity_state = [e \in Entities |-> "none"]
    /\ entity_traits = [e \in Entities |-> <<>>]
    /\ tickPc = "deaths"

ManagerAtRest ==
    /\ mgrPc = [t \in Triggers |-> "idle"]
    /\ finished = [t \in Triggers |-> "none"]
    /\ released = FALSE

\* ------------------------------------------------------ the world's units
\* Positions are counted in 1/20 pixel and energies in halves, so that the
\* 0.1 pixel buffer of resolve_collision and the 2.5 metabolism of the
\* predator are whole numbers.
PosScale == 20
EnergyScale == 2

world_width == 2000 * PosScale
MAX_MOVE_PER_TICK == 20 * PosScale
trait_timeout_ms == 5

WorldIds == {"m1", "m2", "pred"}
Molbots == {"m1", "m2"}
entity_type(e) == IF e = "pred" THEN "predator" ELSE "molbot"
radius(e) == IF e = "pred" THEN 15 * PosScale ELSE 10 * PosScale
metabolism_rate(e) == IF e = "pred" THEN (5 * EnergyScale) \div 2 ELSE EnergyScale
DefaultMaxEnergy(e) == IF e = "pred" THEN 200 * EnergyScale ELSE 100 * EnergyScale

\* What the execute body of a trait that passes CodeValidator can do.
TraitKinds == {"none", "write_energy", "break_cap", "hoard", "eat", "move",
               "write_x", "attack", "spin", "spin_forever", "yield_forever"}
\* The kinds whose body runs for a while without ever awaiting.
SpinKinds == {"spin", "spin_forever"}
\* CPU time of the "spin" body, in ms.
SpinBurstMs == trait_timeout_ms + 1

WorldAtRest ==
    /\ world_stage = "update"
    /\ ticks = 0
    /\ trait_kind = "none"
    /\ pos_x = [e \in WorldIds |-> radius(e)]
    /\ ent_energy = [e \in WorldIds |-> DefaultMaxEnergy(e)]
    /\ ent_max_energy = [e \in WorldIds |-> DefaultMaxEnergy(e)]
    /\ ent_max_energy_type = [e \in WorldIds |-> "float"]
    /\ ent_state = [e \in WorldIds |-> "absent"]
    /\ infected = [e \in WorldIds |-> FALSE]
    /\ deactivated = FALSE
    /\ trait_energy_gain = [e \in WorldIds |-> 0]
    /\ energy_snapshot = 0
    /\ energy_pre = [e \in WorldIds |-> DefaultMaxEnergy(e)]
    /\ busy_ms = 0
    /\ resources = {}

ExecutorAtRest ==
    /\ ex_traits = <<>>
    /\ ex_deactivated = {}
    /\ ex_registry = <<>>
    /\ ex_idx = 0
    /\ ex_elapsed = 0
    /\ ex_ran = 0
    /\ ex_failed = FALSE
    /\ ex_runs = 0
    /\ ex_pending = FALSE

BusHandlers == {"gatekeeper_applied", "watcher_applied", "on_feed_event"}

EventBusAtRest ==
    /\ bus_published = <<>>
    /\ bus_wire = <<>>
    /\ loop_ready = <<>>
    /\ bus_observed = [h \in BusHandlers |-> <<>>]
    /\ bus_active = {}

TelemetryIds == 1..MaxTelemetry
\* Optional[float] = None
NoTime == -1

WatcherAtRest ==
    /\ w_now = 0
    /\ w_cooldown = evolution_cooldown_sec
    /\ last_trigger_time = NoTime
    /\ last_periodic_trigger_time = NoTime
    /\ w_pc = [e \in TelemetryIds |-> "none"]
    /\ w_triggers = <<>>

ProposalIds == 1..MaxProposals

ProposeAtRest ==
    /\ rl_ip = 0
    /\ rl_hr = 0
    /\ rl_active = 0
    /\ prop_pc = [p \in ProposalIds |-> "none"]
    /\ gk_busy = 0

LoopAtRest ==
    /\ tick_counter = 0
    /\ loop_ticks = 0
    /\ loop_pos = 0
    /\ loop_ran = <<>>
    /\ loop_raised = ""
    /\ tick_errors = 0

\* A float: a finite value in 1/PosScale px, a finite value whose square
\* overflows, an infinity, or not a number.
Fin(n) == [k |-> "fin", v |-> n]
Big(sgn) == [k |-> "big", v |-> sgn]
Inf(sgn) == [k |-> "inf", v |-> sgn]
NaN == [k |-> "nan", v |-> 0]

MoveAtRest ==
    /\ mv_x = Fin(0)
    /\ mv_y = Fin(0)
    /\ mv_from_x = 0
    /\ mv_from_y = 0
    /\ mv_moves = 0

PipeAtRest == pipe_pc = [t \in Triggers |-> "idle"]

LoadAtRest ==
    /\ ld_file = [p \in 1..2 |-> "none"]
    /\ ld_checked = [p \in 1..2 |-> "none"]
    /\ ld_pc = [p \in 1..2 |-> "idle"]
    /\ ld_row = [p \in 1..2 |-> "none"]
    /\ ld_active = [p \in 1..2 |-> FALSE]
    /\ ld_registry = {}

FitnessAtRest ==
    /\ fit_ticks = 0
    /\ fit_prev = [tick |-> -1, count |-> 0]
    /\ fit_pending = <<>>
    /\ fit_applied = {}
    /\ fit_run = [active |-> FALSE, tick |-> 0, count |-> 0, pos |-> 0,
                  used |-> 0, remove |-> {}]
    /\ fit_evals = [m \in 1..2 |-> 0]
    /\ fit_rollbacks = [m \in 1..2 |-> 0]

CoderAtRest ==
    /\ cd_pc = [p \in 1..2 |-> "idle"]
    /\ cd_code = [p \in 1..2 |-> "none"]
    /\ cd_calls = [p \in 1..2 |-> 0]
    /\ cd_invalid = [p \in 1..2 |-> 0]
    /\ cd_retry_err = [p \in 1..2 |-> FALSE]
    /\ cd_feed = [p \in 1..2 |-> {}]
    /\ cd_ready = [p \in 1..2 |-> 0]

RetentionAtRest ==
    /\ rt_disk = {}
    /\ rt_written = [f \in {"energy_pulse", "resource_diversifier"} |-> 0]
    /\ rt_activated = {}
    /\ rt_family_files =
           [f \in {"energy_pulse", "resource_diversifier"} |-> <<>>]

TraitErrorAtRest ==
    /\ te_reported = {}
    /\ te_reports = [f \in {"energy_pulse", "swarm"} |-> 0]
    /\ te_failures = [f \in {"energy_pulse", "swarm"} |-> 0]
    /\ te_calls = 0

ReapAtRest ==
    /\ rp_state = [e \in 1..3 |-> "alive"]
    /\ rp_infected = [e \in 1..3 |-> FALSE]
    /\ rp_how = [e \in 1..3 |-> "none"]
    /\ rp_counted = [e \in 1..3 |-> "none"]
    /\ rp_death_stats =
           [c \in {"predator_death", "virus", "starvation"} |-> 0]

LaterAtRest ==
    /\ ReapAtRest
    /\ TraitErrorAtRest
    /\ RetentionAtRest
    /\ CoderAtRest
    /\ FitnessAtRest
    /\ LoadAtRest
    /\ PipeAtRest
    /\ ExecutorAtRest
    /\ EventBusAtRest
    /\ WatcherAtRest
    /\ ProposeAtRest
    /\ LoopAtRest
    /\ MoveAtRest

OthersAtRest == EngineAtRest /\ ManagerAtRest /\ WorldAtRest /\ LaterAtRest

\* ------------------------------------------------------------ SpecCycle
InitCycle ==
    /\ now = 0
    /\ cooldown \in CooldownChoices
    /\ lock = NoLock
    /\ record = NoRecord
    /\ bus = <<>>
    /\ nextTrigger = 1
    /\ archPc = [t \in Triggers |-> "idle"]
    /\ coderPc = [t \in Triggers |-> "idle"]
    /\ startResult = [t \in Triggers |-> "none"]
    /\ lockSeen = [t \in Triggers |-> FALSE]
    /\ acquiredAt = [t \in Triggers |-> -1]
    /\ llmResult = [t \in Triggers |-> "pending"]
    /\ plans = {}
    /\ ready = {}
    /\ feed = {}
    /\ PatchAtRest
    /\ OthersAtRest

\* The Watcher (or the manual API) publishes an Evolution Trigger.
PublishTrigger ==
    /\ nextTrigger <= MaxTriggers
    /\ bus' = Append(bus, [ch |-> "trigger", id |-> nextTrigger])
    /\ nextTrigger' = nextTrigger + 1
    /\ UNCHANGED <<patchOnly, othersOnly>>
    /\ UNCHANGED <<now, cooldown, lock, record, archPc, coderPc, startResult,
                   lockSeen, acquiredAt, llmResult, plans, ready, feed>>

\* Wall-clock time passes; Redis expires the keys whose TTL ran out.  At the
\* clock's granularity a Redis command, a publish, a dispatch and a file
\* write take no time: time passes while handlers wait for the LLM and
\* between handlers.
AdvanceClock ==
    /\ now < MaxClock * ClockStepSec
    /\ bus = <<>>
    /\ \A t \in Triggers :
          /\ archPc[t] \in {"idle", "llm", "done"}
          /\ coderPc[t] \in {"idle", "gen1", "gen2", "gave_up", "ready"}
    /\ now' = now + ClockStepSec
    /\ lock' = ExpireLock(lock, now')
    /\ record' = ExpireRecord(record, now')
    /\ UNCHANGED <<patchOnly, othersOnly>>
    /\ UNCHANGED <<cooldown, bus, nextTrigger, archPc, coderPc, startResult,
                   lockSeen, acquiredAt, llmResult, plans, ready, feed>>

\* _dispatch starts handle_trigger(t), which runs up to start_cycle's
\* SET evo:cycle:lock <trigger_id> NX EX ttl.
handle_trigger_start ==
    /\ bus # <<>>
    /\ Head(bus).ch = "trigger"
    /\ LET t == Head(bus).id
           acquired == set_nx(lock)
       IN /\ archPc[t] = "idle"
          /\ lockSeen' = [lockSeen EXCEPT ![t] = lock.holder # NoTrigger]
          /\ IF acquired
             THEN /\ lock' = [holder |-> t, expiresAt |-> now + ttl_sec(cooldown)]
                  /\ startResult' = [startResult EXCEPT ![t] = "acquired"]
                  /\ acquiredAt' = [acquiredAt EXCEPT ![t] = now]
                  /\ archPc' = [archPc EXCEPT ![t] = "hset"]
             ELSE /\ lock' = lock
                  /\ startResult' = [startResult EXCEPT ![t] = "busy"]
                  /\ acquiredAt' = acquiredAt
                  /\ archPc' = [archPc EXCEPT ![t] = "skip"]
    /\ bus' = Tail(bus)
    /\ UNCHANGED <<patchOnly, othersOnly>>
    /\ UNCHANGED <<now, cooldown, record, nextTrigger, coderPc, llmResult,
                   plans, ready, feed>>

\* start_cycle: HSET evo:cycle:current {trigger_id, ..., stage=planning}.
start_cycle_hset(t) ==
    /\ archPc[t] = "hset"
    /\ record' = [hset_stage(record, STAGE_PLANNING) EXCEPT !.trigger_id = t]
    /\ archPc' = [archPc EXCEPT ![t] = "expire"]
    /\ UNCHANGED <<patchOnly, othersOnly>>
    /\ UNCHANGED <<now, cooldown, lock, bus, nextTrigger, coderPc, startResult,
                   lockSeen, acquiredAt, llmResult, plans, ready, feed>>

\* start_cycle: EXPIRE evo:cycle:current ttl; then the "analyzing" feed.
start_cycle_expire(t) ==
    /\ archPc[t] = "expire"
    /\ record' = IF record.exists
                 THEN [record EXCEPT !.expiresAt = now + ttl_sec(cooldown)]
                 ELSE record
    /\ feed' = feed \cup {Feed("architect", "analyzing", t)}
    /\ archPc' = [archPc EXCEPT ![t] = "llm"]
    /\ UNCHANGED <<patchOnly, othersOnly>>
    /\ UNCHANGED <<now, cooldown, lock, bus, nextTrigger, coderPc, startResult,
                   lockSeen, acquiredAt, llmResult, plans, ready>>

\* handle_trigger after a busy start_cycle: GET the holder for the log,
\* publish the "skipped" feed message and return.
handle_trigger_skipped(t) ==
    /\ archPc[t] = "skip"
    /\ feed' = feed \cup {Feed("architect", "skipped", t)}
    /\ archPc' = [archPc EXCEPT ![t] = "done"]
    /\ UNCHANGED <<patchOnly, othersOnly>>
    /\ UNCHANGED <<now, cooldown, lock, record, bus, nextTrigger, coderPc,
                   startResult, lockSeen, acquiredAt, llmResult, plans, ready>>

\* _create_plan: the LLM call returns; on None the "failed" feed follows.
create_plan(t) ==
    /\ archPc[t] = "llm"
    /\ \E result \in LlmPlanResults :
        /\ llmResult' = [llmResult EXCEPT ![t] = result]
        /\ IF create_plan_ok(result)
           THEN /\ archPc' = [archPc EXCEPT ![t] = "publish_plan"]
                /\ feed' = feed
           ELSE /\ archPc' = [archPc EXCEPT ![t] = "fail_hset"]
                /\ feed' = feed \cup {Feed("architect", "failed", t)}
    /\ UNCHANGED <<patchOnly, othersOnly>>
    /\ UNCHANGED <<now, cooldown, lock, record, bus, nextTrigger, coderPc,
                   startResult, lockSeen, acquiredAt, plans, ready>>

\* fail_cycle: HSET evo:cycle:current {stage=failed, error}.
fail_cycle_hset(t) ==
    /\ archPc[t] = "fail_hset"
    /\ record' = [hset_stage(record, STAGE_FAILED) EXCEPT !.error = TRUE]
    /\ archPc' = [archPc EXCEPT ![t] = "fail_del"]
    /\ UNCHANGED <<patchOnly, othersOnly>>
    /\ UNCHANGED <<now, cooldown, lock, bus, nextTrigger, coderPc, startResult,
                   lockSeen, acquiredAt, llmResult, plans, ready, feed>>

\* fail_cycle: DEL evo:cycle:lock (whoever holds it).
fail_cycle_delete(t) ==
    /\ archPc[t] = "fail_del"
    /\ lock' = NoLock
    /\ archPc' = [archPc EXCEPT ![t] = "done"]
    /\ UNCHANGED <<patchOnly, othersOnly>>
    /\ UNCHANGED <<now, cooldown, record, bus, nextTrigger, coderPc,
                   startResult, lockSeen, acquiredAt, llmResult, plans, ready,
                   feed>>

\* handle_trigger: publish the Evolution Plan.
publish_plan(t) ==
    /\ archPc[t] = "publish_plan"
    /\ bus' = Append(bus, [ch |-> "plan", id |-> t])
    /\ plans' = plans \cup {t}
    /\ archPc' = [archPc EXCEPT ![t] = "update_stage"]
    /\ UNCHANGED <<patchOnly, othersOnly>>
    /\ UNCHANGED <<now, cooldown, lock, record, nextTrigger, coderPc,
                   startResult, lockSeen, acquiredAt, llmResult, ready, feed>>

\* handle_trigger: update_stage("coding"), then the "plan_created" feed.
update_stage_coding(t) ==
    /\ archPc[t] = "update_stage"
    /\ record' = hset_stage(record, STAGE_CODING)
    /\ feed' = feed \cup {Feed("architect", "plan_created", t)}
    /\ archPc' = [archPc EXCEPT ![t] = "done"]
    /\ UNCHANGED <<patchOnly, othersOnly>>
    /\ UNCHANGED <<now, cooldown, lock, bus, nextTrigger, coderPc, startResult,
                   lockSeen, acquiredAt, llmResult, plans, ready>>

\* _dispatch starts handle_plan: the "coding" feed, then the first LLM call.
handle_plan_start ==
    /\ bus # <<>>
    /\ Head(bus).ch = "plan"
    /\ LET t == Head(bus).id
       IN /\ coderPc[t] = "idle"
          /\ coderPc' = [coderPc EXCEPT ![t] = "gen1"]
          /\ feed' = feed \cup {Feed("coder", "coding", t)}
    /\ bus' = Tail(bus)
    /\ UNCHANGED <<patchOnly, othersOnly>>
    /\ UNCHANGED <<now, cooldown, lock, record, nextTrigger, archPc,
                   startResult, lockSeen, acquiredAt, llmResult, plans, ready>>

\* _generate_and_save_code: first _generate_code and validate.
CodeResults == {"none", "invalid", "valid"}
generate_first(t) ==
    /\ coderPc[t] = "gen1"
    /\ \E code \in CodeResults :
        /\ coderPc' = [coderPc EXCEPT ![t] =
                         CASE code = "none" -> "gave_up"
                           [] code = "invalid" -> "gen2"
                           [] OTHER -> "save"]
        /\ feed' = IF code = "none"
                   THEN feed \cup {Feed("coder", "failed", t)}
                   ELSE feed
    /\ UNCHANGED <<patchOnly, othersOnly>>
    /\ UNCHANGED <<now, cooldown, lock, record, bus, nextTrigger, archPc,
                   startResult, lockSeen, acquiredAt, llmResult, plans, ready>>

\* _generate_and_save_code: the single retry with the validation error.
generate_retry(t) ==
    /\ coderPc[t] = "gen2"
    /\ \E code \in CodeResults :
        /\ coderPc' = [coderPc EXCEPT ![t] =
                         IF code = "valid" THEN "save" ELSE "gave_up"]
        /\ feed' = CASE code = "none" ->
                          feed \cup {Feed("coder", "failed", t)}
                     [] code = "invalid" ->
                          feed \cup {Feed("coder", "validation_failed", t),
                                     Feed("coder", "failed", t)}
                     [] OTHER -> feed
    /\ UNCHANGED <<patchOnly, othersOnly>>
    /\ UNCHANGED <<now, cooldown, lock, record, bus, nextTrigger, archPc,
                   startResult, lockSeen, acquiredAt, llmResult, plans, ready>>

\* _generate_and_save_code: write the file (may fail), then handle_plan
\* publishes Mutation Ready.
save_and_publish_ready(t) ==
    /\ coderPc[t] = "save"
    /\ \E written \in BOOLEAN :
        IF written
        THEN /\ coderPc' = [coderPc EXCEPT ![t] = "ready"]
             /\ ready' = ready \cup {t}
             /\ feed' = feed \cup {Feed("coder", "mutation_ready", t)}
        ELSE /\ coderPc' = [coderPc EXCEPT ![t] = "gave_up"]
             /\ ready' = ready
             /\ feed' = feed \cup {Feed("coder", "failed", t)}
    /\ UNCHANGED <<patchOnly, othersOnly>>
    /\ UNCHANGED <<now, cooldown, lock, record, bus, nextTrigger, archPc,
                   startResult, lockSeen, acquiredAt, llmResult, plans>>

NextCycle ==
    \/ PublishTrigger
    \/ AdvanceClock
    \/ handle_trigger_start
    \/ handle_plan_start
    \/ \E t \in Triggers : start_cycle_hset(t)
    \/ \E t \in Triggers : start_cycle_expire(t)
    \/ \E t \in Triggers : handle_trigger_skipped(t)
    \/ \E t \in Triggers : create_plan(t)
    \/ \E t \in Triggers : fail_cycle_hset(t)
    \/ \E t \in Triggers : fail_cycle_delete(t)
    \/ \E t \in Triggers : publish_plan(t)
    \/ \E t \in Triggers : update_stage_coding(t)
    \/ \E t \in Triggers : generate_first(t)
    \/ \E t \in Triggers : generate_retry(t)
    \/ \E t \in Triggers : save_and_publish_ready(t)

SpecCycle == InitCycle /\ [][NextCycle]_vars

\* ------------------------------------------------- claims on SpecCycle

\* The stage a cycle is in, read off the position of its pipeline: planning
\* from the acquisition of the mutex until the Architect writes coding or
\* failed, coding from that write until the Coder publishes Mutation Ready
\* or gives up.
CycleStage(t) ==
    IF startResult[t] # "acquired" THEN "none"
    ELSE IF archPc[t] \in {"hset", "expire", "llm", "publish_plan",
                           "update_stage", "fail_hset"} THEN STAGE_PLANNING
    ELSE IF llmResult[t] # "ok" THEN STAGE_FAILED
    ELSE IF coderPc[t] \in {"gave_up", "ready"} THEN "closed"
    ELSE STAGE_CODING

ActiveStages == {STAGE_PLANNING, STAGE_CODING, STAGE_PATCHING}

LockExists == lock.holder # NoTrigger

\* A cycle-manager call (start_cycle, update_stage, fail_cycle) is under way.
InCycleManagerCall ==
    \E t \in Triggers : archPc[t] \in {"hset", "expire", "fail_del"}

\* TTL as the specification states it: max(60 s, evolution_cooldown x 3).
StatedTtl == IF cooldown * 3 > 60 THEN cooldown * 3 ELSE 60

\* C1: at every moment at most one evolution cycle is in stage planning,
\* coding or patching, over every interleaving of trigger deliveries, stage
\* updates, fail calls and expiry of the lock's TTL.
C1_AtMostOneActiveCycle ==
    Cardinality({t \in Triggers : CycleStage(t) \in ActiveStages}) <= 1

\* C2: the lock key evo:cycle:lock exists if and only if the stage in the
\* record evo:cycle:current is neither done nor failed.  Stated for the
\* states in which no cycle-manager call is half-way through its two Redis
\* commands, which is the reading most favourable to the claim.
C2_LockIffStageActive ==
    ~InCycleManagerCall =>
        (LockExists <=> (record.exists
                         /\ record.stage \notin {STAGE_DONE, STAGE_FAILED}))

\* C3: a trigger delivered while the mutex of an earlier trigger is in place
\* is skipped: it gets the busy answer from a cycle that did acquire, it
\* never enters a stage, it publishes no Evolution Plan, and its handler
\* ends with the "skipped" feed message; only the acquiring trigger can
\* proceed to coding.
C3_SecondTriggerSkipped ==
    \A t \in Triggers :
        lockSeen[t] =>
            /\ startResult[t] = "busy"
            /\ \E h \in Triggers \ {t} : startResult[h] = "acquired"
            /\ CycleStage(t) = "none"
            /\ t \notin plans
            /\ archPc[t] \in {"skip", "done"}
            /\ (archPc[t] = "done" =>
                    Feed("architect", "skipped", t) \in feed)

C3_Witness ==
    \E t1, t2 \in Triggers :
        /\ t1 # t2
        /\ lockSeen[t2]
        /\ archPc[t2] = "done"
        /\ archPc[t1] = "done"
        /\ CycleStage(t1) = STAGE_CODING

\* C4: a cycle whose holder never calls complete or fail cannot block
\* evolution for ever: the lock lives max(60 s, evolution_cooldown x 3), and
\* a start_cycle made once that time has passed since the last acquisition
\* returns acquired.
C4_LockBoundedByTtl ==
    /\ [](LockExists => now < acquiredAt[lock.holder] + StatedTtl)
    /\ [][\A t \in Triggers :
            (/\ archPc[t] = "idle"
             /\ archPc'[t] # "idle"
             /\ \A h \in Triggers : now >= acquiredAt[h] + StatedTtl)
            => startResult'[t] = "acquired"]_vars

C4_Witness ==
    \E t1, t2 \in Triggers :
        /\ t1 # t2
        /\ archPc[t1] = "llm"
        /\ startResult[t1] = "acquired"
        /\ startResult[t2] = "acquired"
        /\ lock.holder = t2
        /\ acquiredAt[t2] = acquiredAt[t1] + StatedTtl

\* C6: when the Coder gives up on a plan (its LLM call fails or the
\* regenerated code fails validation again) the cycle is failed: the stage
\* of its record is failed and it no longer holds the mutex.
C6_CoderGiveUpFailsCycle ==
    \A t \in Triggers :
        (coderPc[t] = "gave_up" /\ archPc[t] = "done") =>
            /\ lock.holder # t
            /\ (record.exists /\ record.trigger_id = t
                    => record.stage = STAGE_FAILED)

\* C7: when the Architect's LLM call fails (None from generate_json, or the
\* required fields are missing) the Architect publishes no Evolution Plan,
\* writes stage failed and deletes the lock key.
C7_ArchitectFailureFailsCycle ==
    /\ [](\A t \in Triggers :
            llmResult[t] \in {"none", "missing_fields"} =>
                /\ t \notin plans
                /\ archPc[t] \in {"fail_hset", "fail_del", "done"}
                /\ (archPc[t] = "done" => lock.holder # t))
    /\ [][\A t \in Triggers :
            llmResult[t] \in {"none", "missing_fields"} =>
                /\ (archPc[t] = "fail_hset" /\ archPc'[t] # "fail_hset"
                        => record'.exists /\ record'.stage = STAGE_FAILED
                           /\ record'.error)
                /\ (archPc[t] = "fail_del" /\ archPc'[t] # "fail_del"
                        => ~LockExists')]_vars

C7_Witness ==
    \E t \in Triggers :
        /\ llmResult[t] = "missing_fields"
        /\ archPc[t] = "done"
        /\ record.exists /\ record.trigger_id = t
        /\ record.stage = STAGE_FAILED
        /\ ~LockExists

\* ------------------------------------------------------------ SpecPatch
InitPatch ==
    /\ CycleAtRest
    /\ bus = <<>>
    /\ PatchAtRest
    /\ OthersAtRest

\* POST /mutations/propose: HSET the record with status queued, SET the
\* source, LPUSH the id.  The Gatekeeper sees the mutation only once the id
\* is in the queue, so the three writes are one step.
propose_mutation ==
    /\ nextMutation <= MaxMutations
    /\ \E name \in TraitNames, code \in Codes :
        /\ mutName' = [mutName EXCEPT ![nextMutation] = name]
        /\ mutCode' = [mutCode EXCEPT ![nextMutation] = code]
    /\ mutOrigin' = [mutOrigin EXCEPT ![nextMutation] = "external"]
    /\ status' = [status EXCEPT ![nextMutation] = "queued"]
    /\ queue' = Append(queue, nextMutation)
    /\ nextMutation' = nextMutation + 1
    /\ UNCHANGED <<cycleOnly, othersOnly>>
    /\ UNCHANGED <<bus, gkPc, gkCur, pending, files, patchPc, registry,
                   registry_version, usedHashes, failedEvents, rollbacks,
                   rbPc, snapTick, prev_snapshot, pending_fitness>>

\* The Coder's _generate_and_save_code and handle_plan for code that passed
\* its validation: write the file, save the record with status pending,
\* publish Mutation Ready.
coder_mutation_ready ==
    /\ nextMutation <= MaxMutations
    /\ \E name \in TraitNames, code \in Codes :
        /\ is_valid(code, usedHashes)
        /\ mutName' = [mutName EXCEPT ![nextMutation] = name]
        /\ mutCode' = [mutCode EXCEPT ![nextMutation] = code]
    /\ mutOrigin' = [mutOrigin EXCEPT ![nextMutation] = "coder"]
    /\ files' = files \cup {nextMutation}
    /\ status' = [status EXCEPT ![nextMutation] = "pending"]
    /\ bus' = Append(bus, Msg("ready", nextMutation, ""))
    /\ nextMutation' = nextMutation + 1
    /\ UNCHANGED <<cycleOnly, othersOnly>>
    /\ UNCHANGED <<queue, gkPc, gkCur, pending, patchPc, registry,
                   registry_version, usedHashes, failedEvents, rollbacks,
                   rbPc, snapTick, prev_snapshot, pending_fitness>>

\* _process_queue pops an id; _handle_mutation reads the record and the
\* source (only this mutation's keys) and marks the record validating.
gatekeeper_take ==
    /\ gkPc = "idle"
    /\ queue # <<>>
    /\ LET m == Head(queue)
       IN /\ queue' = Tail(queue)
          /\ IF status[m] = "absent"
             THEN UNCHANGED <<status, gkPc, gkCur>>
             ELSE IF mutCode[m] = NoCode
             THEN /\ status' = [status EXCEPT ![m] = "rejected"]
                  /\ UNCHANGED <<gkPc, gkCur>>
             ELSE /\ status' = [status EXCEPT ![m] = "validating"]
                  /\ gkPc' = "validate"
                  /\ gkCur' = m
    /\ UNCHANGED <<cycleOnly, othersOnly>>
    /\ UNCHANGED <<bus, mutName, mutCode, mutOrigin, nextMutation, pending,
                   files, patchPc, registry, registry_version, usedHashes,
                   failedEvents, rollbacks, rbPc, snapTick, prev_snapshot,
                   pending_fitness>>

\* _handle_mutation: the validator's verdict; on success the file write,
\* then status sandbox_ok and _pending.add.
gatekeeper_validate ==
    /\ gkPc = "validate"
    /\ IF ~is_valid(mutCode[gkCur], usedHashes)
       THEN /\ status' = [status EXCEPT ![gkCur] = "rejected"]
            /\ gkPc' = "idle"
            /\ UNCHANGED <<files, pending>>
       ELSE \E written \in BOOLEAN :
              IF written
              THEN /\ files' = files \cup {gkCur}
                   /\ status' = [status EXCEPT ![gkCur] = "sandbox_ok"]
                   /\ pending' = pending \cup {gkCur}
                   /\ gkPc' = "publish"
              ELSE /\ status' = [status EXCEPT ![gkCur] = "rejected"]
                   /\ gkPc' = "idle"
                   /\ UNCHANGED <<files, pending>>
    /\ UNCHANGED <<cycleOnly, othersOnly>>
    /\ UNCHANGED <<bus, mutName, mutCode, mutOrigin, nextMutation, queue,
                   gkCur, patchPc, registry, registry_version, usedHashes,
                   failedEvents, rollbacks, rbPc, snapTick, prev_snapshot,
                   pending_fitness>>

\* _handle_mutation: publish Mutation Ready.
gatekeeper_publish_ready ==
    /\ gkPc = "publish"
    /\ bus' = Append(bus, Msg("ready", gkCur, ""))
    /\ gkPc' = "idle"
    /\ UNCHANGED <<cycleOnly, othersOnly>>
    /\ UNCHANGED <<mutName, mutCode, mutOrigin, nextMutation, status, queue,
                   gkCur, pending, files, patchPc, registry,
                   registry_version, usedHashes, failedEvents, rollbacks,
                   rbPc, snapTick, prev_snapshot, pending_fitness>>

\* _dispatch starts _handle_mutation_ready: step 1, _validate_mutation.  Its
\* three failure branches publish Mutation Failed with mutation_id "unknown".
handle_mutation_ready_validate ==
    /\ bus # <<>>
    /\ Head(bus).ch = "ready"
    /\ LET m == Head(bus).id
       IN /\ patchPc[m] = "idle"
          /\ IF m \notin files \/ ~is_valid(mutCode[m], usedHashes)
             THEN /\ patchPc' = [patchPc EXCEPT ![m] = "failed_validation"]
                  /\ failedEvents' = Append(failedEvents,
                        MutationFailed(UnknownId, "validation"))
                  /\ bus' = Append(Tail(bus),
                                   Msg("failed", UnknownId, "validation"))
             ELSE /\ patchPc' = [patchPc EXCEPT ![m] = "validated"]
                  /\ failedEvents' = failedEvents
                  /\ bus' = Tail(bus)
    /\ UNCHANGED <<cycleOnly, othersOnly>>
    /\ UNCHANGED <<mutName, mutCode, mutOrigin, nextMutation, status, queue,
                   gkPc, gkCur, pending, files, registry, registry_version,
                   usedHashes, rollbacks, rbPc, snapTick, prev_snapshot,
                   pending_fitness>>

\* _handle_mutation_ready, steps 2 and 3 up to mark_as_used: _load_module,
\* registry.register, _registry_version += 1, register_source.  A None from
\* _load_module ends the handler with the feed message only; an exception
\* in step 3 publishes Mutation Failed with stage execution.
handle_mutation_ready_load(m) ==
    /\ patchPc[m] = "validated"
    /\ IF ~load_module_ok(mutCode[m])
       THEN /\ patchPc' = [patchPc EXCEPT ![m] = "failed_import"]
            /\ UNCHANGED <<registry, registry_version, usedHashes,
                           failedEvents, bus>>
       ELSE IF register_raises(mutCode[m])
       THEN /\ registry' = register(registry, mutName[m], m)
            /\ patchPc' = [patchPc EXCEPT ![m] = "failed_execution"]
            /\ failedEvents' = Append(failedEvents,
                  MutationFailed(m, "execution"))
            /\ bus' = Append(bus, Msg("failed", m, "execution"))
            /\ usedHashes' =
                   hashes_after_register(usedHashes, mutCode[m], TRUE)
            /\ UNCHANGED registry_version
       ELSE /\ registry' = register(registry, mutName[m], m)
            /\ registry_version' = registry_version + 1
            /\ usedHashes' =
                   hashes_after_register(usedHashes, mutCode[m], FALSE)
            /\ patchPc' = [patchPc EXCEPT ![m] = "registered"]
            /\ UNCHANGED <<failedEvents, bus>>
    /\ UNCHANGED <<cycleOnly, othersOnly>>
    /\ UNCHANGED <<mutName, mutCode, mutOrigin, nextMutation, status, queue,
                   gkPc, gkCur, pending, files, rollbacks, rbPc, snapTick,
                   prev_snapshot, pending_fitness>>

\* _handle_mutation_ready: publish Mutation Applied.
handle_mutation_ready_publish(m) ==
    /\ patchPc[m] = "registered"
    /\ bus' = Append(bus, Msg("applied", m, ""))
    /\ patchPc' = [patchPc EXCEPT ![m] = "applied"]
    /\ UNCHANGED <<cycleOnly, othersOnly>>
    /\ UNCHANGED <<mutName, mutCode, mutOrigin, nextMutation, status, queue,
                   gkPc, gkCur, pending, files, registry, registry_version,
                   usedHashes, failedEvents, rollbacks, rbPc, snapTick,
                   prev_snapshot, pending_fitness>>

\* _dispatch of a Mutation Applied: the Gatekeeper's _handle_applied
\* (membership test, discard, HSET status activated) and the Watcher's
\* _handle_mutation_applied (baseline from _prev_snapshot, if there is one).
dispatch_applied ==
    /\ bus # <<>>
    /\ Head(bus).ch = "applied"
    /\ LET m == Head(bus).id
       IN /\ IF in_pending(pending, m)
             THEN /\ pending' = pending \ {m}
                  /\ status' = [status EXCEPT ![m] = "activated"]
             ELSE UNCHANGED <<pending, status>>
          /\ pending_fitness' =
                IF prev_snapshot = NoSnapshot
                THEN pending_fitness
                ELSE Append(pending_fitness,
                            [mutation_id |-> m,
                             baseline_count |-> prev_snapshot.entity_count,
                             window_starts_after |-> prev_snapshot.tick])
    /\ bus' = Tail(bus)
    /\ UNCHANGED <<cycleOnly, othersOnly>>
    /\ UNCHANGED <<mutName, mutCode, mutOrigin, nextMutation, queue, gkPc,
                   gkCur, files, patchPc, registry, registry_version,
                   usedHashes, failedEvents, rollbacks, rbPc, snapTick,
                   prev_snapshot>>

\* _dispatch of a Mutation Failed: the Gatekeeper's _handle_failed.
dispatch_failed ==
    /\ bus # <<>>
    /\ Head(bus).ch = "failed"
    /\ LET id == Head(bus).id
       IN IF in_pending(pending, id)
          THEN /\ pending' = pending \ {id}
               /\ status' = [status EXCEPT ![id] = "rejected"]
          ELSE UNCHANGED <<pending, status>>
    /\ bus' = Tail(bus)
    /\ UNCHANGED <<cycleOnly, othersOnly>>
    /\ UNCHANGED <<mutName, mutCode, mutOrigin, nextMutation, queue, gkPc,
                   gkCur, files, patchPc, registry, registry_version,
                   usedHashes, failedEvents, rollbacks, rbPc, snapTick,
                   prev_snapshot, pending_fitness>>

\* _dispatch of a Mutation Rollback: the Gatekeeper's _handle_rollback up to
\* its HEXISTS.  The Patcher subscribes to Mutation Ready only, so no other
\* handler receives the event.
dispatch_rollback ==
    /\ bus # <<>>
    /\ Head(bus).ch = "rollback"
    /\ LET m == Head(bus).id
       IN rbPc' = [rbPc EXCEPT ![m] =
                     IF status[m] = "absent" THEN "done" ELSE "hset"]
    /\ bus' = Tail(bus)
    /\ UNCHANGED <<cycleOnly, othersOnly>>
    /\ UNCHANGED <<mutName, mutCode, mutOrigin, nextMutation, status, queue,
                   gkPc, gkCur, pending, files, patchPc, registry,
                   registry_version, usedHashes, failedEvents, rollbacks,
                   snapTick, prev_snapshot, pending_fitness>>

\* _handle_rollback: _update_status(mutation_id, "rolled_back").
handle_rollback_hset(m) ==
    /\ rbPc[m] = "hset"
    /\ status' = [status EXCEPT ![m] = "rolled_back"]
    /\ rbPc' = [rbPc EXCEPT ![m] = "done"]
    /\ UNCHANGED <<cycleOnly, othersOnly>>
    /\ UNCHANGED <<bus, mutName, mutCode, mutOrigin, nextMutation, queue,
                   gkPc, gkCur, pending, files, patchPc, registry,
                   registry_version, usedHashes, failedEvents, rollbacks,
                   snapTick, prev_snapshot, pending_fitness>>

\* The engine stores a snapshot and publishes its telemetry event; the
\* message stands for the snapshot the Watcher loads under its key.
\* Snapshots are snapshot_interval_ticks apart, a dispatch takes no time at
\* that scale: a snapshot arrives when no message is in flight.
publish_telemetry ==
    /\ snapTick < MaxSnapshots
    /\ bus = <<>>
    /\ snapTick' = snapTick + 1
    /\ \E count \in EntityCounts :
        bus' = Append(bus, Msg("telemetry", snapTick + 1, count))
    /\ UNCHANGED <<cycleOnly, othersOnly>>
    /\ UNCHANGED <<mutName, mutCode, mutOrigin, nextMutation, status, queue,
                   gkPc, gkCur, pending, files, patchPc, registry,
                   registry_version, usedHashes, failedEvents, rollbacks,
                   rbPc, prev_snapshot, pending_fitness>>

\* _dispatch of a telemetry event: the Watcher's _handle_telemetry.
\* _check_fitness evaluates the entries whose window has passed, publishes a
\* Mutation Rollback for each decline beyond the threshold and drops the
\* evaluated entries; then _prev_snapshot is replaced.
handle_telemetry ==
    /\ bus # <<>>
    /\ Head(bus).ch = "telemetry"
    /\ LET tick == Head(bus).id
           count == Head(bus).arg
           due == SelectSeq(pending_fitness,
                            LAMBDA e : tick > e.window_starts_after)
           kept == SelectSeq(pending_fitness,
                             LAMBDA e : ~(tick > e.window_starts_after))
           declined == SelectSeq(due,
                            LAMBDA e : /\ e.baseline_count # 0
                                       /\ rolls_back(count, e.baseline_count))
       IN /\ bus' = Tail(bus) \o
                    [i \in 1..Len(declined) |->
                        Msg("rollback", declined[i].mutation_id, "")]
          /\ rollbacks' = rollbacks \cup
                    {declined[i].mutation_id : i \in 1..Len(declined)}
          /\ pending_fitness' = kept
          /\ prev_snapshot' = [tick |-> tick, entity_count |-> count]
    /\ UNCHANGED <<cycleOnly, othersOnly>>
    /\ UNCHANGED <<mutName, mutCode, mutOrigin, nextMutation, status, queue,
                   gkPc, gkCur, pending, files, patchPc, registry,
                   registry_version, usedHashes, failedEvents, rbPc,
                   snapTick>>

NextPatch ==
    \/ propose_mutation
    \/ coder_mutation_ready
    \/ gatekeeper_take
    \/ gatekeeper_validate
    \/ gatekeeper_publish_ready
    \/ handle_mutation_ready_validate
    \/ \E m \in Mutations : handle_mutation_ready_load(m)
    \/ \E m \in Mutations : handle_mutation_ready_publish(m)
    \/ dispatch_applied
    \/ dispatch_failed
    \/ dispatch_rollback
    \/ \E m \in Mutations : handle_rollback_hset(m)
    \/ publish_telemetry
    \/ handle_telemetry

SpecPatch == InitPatch /\ [][NextPatch]_vars

\* ------------------------------------------------- claims on SpecPatch

\* The positions in which _handle_mutation_ready has ended in failure, and
\* the step each one names.
PatcherFailed == {"failed_validation", "failed_import", "failed_execution"}
FailedStep(pc) ==
    CASE pc = "failed_validation" -> "validation"
      [] pc = "failed_import" -> "import"
      [] OTHER -> "execution"

\* The status automaton as the specification states it.
StatedTransitions ==
    {<<"queued", "validating">>, <<"validating", "sandbox_ok">>,
     <<"validating", "rejected">>, <<"sandbox_ok", "activated">>,
     <<"activated", "rolled_back">>}

\* What _handle_failed and _handle_rollback add to it: a dispatched mutation
\* the Patcher reports as failed is rejected; a record the Coder saved
\* (status pending, which the Gatekeeper never activates) is rolled back.
GatekeeperTransitions ==
    StatedTransitions \cup {<<"sandbox_ok", "rejected">>,
                            <<"pending", "rolled_back">>}

StatusChangesWithin(allowed) ==
    \A i \in Ids :
        (status[i] # "absent" /\ status'[i] # status[i])
            => <<status[i], status'[i]>> \in allowed

\* C5 as stated: every status change of a mutation record is one of
\* queued -> validating, validating -> sandbox_ok, validating -> rejected,
\* sandbox_ok -> activated, activated -> rolled_back.
C5_StatedAutomaton == [][StatusChangesWithin(StatedTransitions)]_vars

\* C5, amended: every status change of a mutation record is one of the five
\* stated transitions, or sandbox_ok -> rejected (the Patcher published a
\* Mutation Failed for the dispatched mutation), or, for a record saved by
\* the Coder, pending -> rolled_back.
C5_StatusAutomaton == [][StatusChangesWithin(GatekeeperTransitions)]_vars

C5_Witness ==
    \E m1, m2 \in Mutations :
        /\ mutOrigin[m1] = "external"
        /\ patchPc[m1] = "failed_execution"
        /\ status[m1] = "rejected"
        /\ mutOrigin[m2] = "external"
        /\ patchPc[m2] = "applied"
        /\ status[m2] = "rolled_back"

\* C8: when the Patcher's handling of a Mutation Ready ends in failure with
\* a Mutation Failed published, the registry's contents and version counter
\* are what they were before the handling: the handler's first step leaves
\* the registry alone, and so does the step that ends in the failure.
C8_FailureLeavesRegistry ==
    [][\A m \in Mutations :
        /\ (patchPc[m] = "idle" /\ patchPc'[m] # "idle")
              => registry' = registry
        /\ (/\ patchPc[m] \notin PatcherFailed
            /\ patchPc'[m] \in PatcherFailed
            /\ Len(failedEvents') > Len(failedEvents))
              => registry' = registry]_vars

\* C9: every failed Patcher attempt has published a Mutation Failed whose
\* mutation_id is the id of the Mutation Ready it handled and whose stage
\* names the step that failed.
C9_FailurePublishesIdAndStage ==
    \A m \in Mutations :
        patchPc[m] \in PatcherFailed =>
            \E i \in 1..Len(failedEvents) :
                failedEvents[i] = MutationFailed(m, FailedStep(patchPc[m]))

\* Nothing is in flight: the bus and the queue are empty and no handler is
\* between two of its steps.
Quiescent ==
    /\ bus = <<>>
    /\ queue = <<>>
    /\ gkPc = "idle"
    /\ \A m \in Mutations :
          /\ patchPc[m] \notin {"validated", "registered"}
          /\ rbPc[m] # "hset"

\* C10: once the Watcher has published a Mutation Rollback for a mutation
\* and every handler has run to its end, the class that mutation registered
\* is no longer in the Trait Registry.
C10_RollbackUnregisters ==
    \A m \in rollbacks :
        Quiescent => registry.traits[canonical_name(mutName[m])] # m

\* ---------------------------------------------------------- SpecManager
\* EvolutionCycleManager driven through its API: each caller starts a cycle
\* for its trigger and, once start_cycle has returned True, updates the
\* stage and ends the cycle with complete_cycle or fail_cycle.  Callers
\* interleave at the awaits of the Redis commands; the clock advances
\* between calls.
InitManager ==
    /\ now = 0
    /\ cooldown \in CooldownChoices
    /\ lock = NoLock
    /\ record = NoRecord
    /\ bus = <<>>
    /\ nextTrigger = 1
    /\ archPc = [t \in Triggers |-> "idle"]
    /\ coderPc = [t \in Triggers |-> "idle"]
    /\ startResult = [t \in Triggers |-> "none"]
    /\ lockSeen = [t \in Triggers |-> FALSE]
    /\ acquiredAt = [t \in Triggers |-> -1]
    /\ llmResult = [t \in Triggers |-> "pending"]
    /\ plans = {}
    /\ ready = {}
    /\ feed = {}
    /\ PatchAtRest
    /\ EngineAtRest
    /\ ManagerAtRest
    /\ WorldAtRest
    /\ LaterAtRest

\* Time passes between manager calls.
manager_clock ==
    /\ now < MaxClock * ClockStepSec
    /\ \A t \in Triggers : mgrPc[t] \in {"idle", "held"}
    /\ now' = now + ClockStepSec
    /\ lock' = ExpireLock(lock, now')
    /\ record' = ExpireRecord(record, now')
    /\ UNCHANGED <<patchOnly, engineOnly, worldOnly, laterOnly, mgrOnly, bus>>
    /\ UNCHANGED <<cooldown, nextTrigger, archPc, coderPc, startResult,
                   lockSeen, acquiredAt, llmResult, plans, ready, feed>>

\* start_cycle: SET evo:cycle:lock <trigger_id> NX EX ttl.
start_cycle(t) ==
    /\ mgrPc[t] = "idle"
    /\ IF set_nx(lock)
       THEN /\ lock' = [holder |-> t, expiresAt |-> now + ttl_sec(cooldown)]
            /\ startResult' = [startResult EXCEPT ![t] = "acquired"]
            /\ acquiredAt' = [acquiredAt EXCEPT ![t] = now]
            /\ mgrPc' = [mgrPc EXCEPT ![t] = "start_hset"]
       ELSE /\ startResult' = [startResult EXCEPT ![t] = "busy"]
            /\ mgrPc' = [mgrPc EXCEPT ![t] = "start_get"]
            /\ UNCHANGED <<lock, acquiredAt>>
    /\ released' = FALSE
    /\ UNCHANGED <<patchOnly, engineOnly, worldOnly, laterOnly, bus, finished>>
    /\ UNCHANGED <<now, cooldown, record, nextTrigger, archPc, coderPc,
                   lockSeen, llmResult, plans, ready, feed>>

\* start_cycle, lock held by another: GET the holder for the log, return
\* False.
start_cycle_busy(t) ==
    /\ mgrPc[t] = "start_get"
    /\ mgrPc' = [mgrPc EXCEPT ![t] = "idle"]
    /\ UNCHANGED <<patchOnly, engineOnly, worldOnly, laterOnly, bus, finished, released>>
    /\ UNCHANGED cycleOnly

\* start_cycle: HSET the record with stage planning, then EXPIRE it; the
\* call returns True.
start_cycle_record(t) ==
    /\ mgrPc[t] \in {"start_hset", "start_expire"}
    /\ IF mgrPc[t] = "start_hset"
       THEN /\ record' = [hset_stage(record, STAGE_PLANNING)
                             EXCEPT !.trigger_id = t]
            /\ mgrPc' = [mgrPc EXCEPT ![t] = "start_expire"]
       ELSE /\ record' = IF record.exists
                         THEN [record EXCEPT
                                 !.expiresAt = now + ttl_sec(cooldown)]
                         ELSE record
            /\ mgrPc' = [mgrPc EXCEPT ![t] = "held"]
    /\ UNCHANGED <<patchOnly, engineOnly, worldOnly, laterOnly, bus, finished, released>>
    /\ UNCHANGED <<now, cooldown, lock, nextTrigger, archPc, coderPc,
                   startResult, lockSeen, acquiredAt, llmResult, plans, ready,
                   feed>>

\* update_stage(stage): one HSET.
update_stage(t) ==
    /\ mgrPc[t] = "held"
    /\ \E stage \in {STAGE_CODING, STAGE_PATCHING} :
        record' = hset_stage(record, stage)
    /\ UNCHANGED <<patchOnly, engineOnly, worldOnly, laterOnly, mgrOnly, bus>>
    /\ UNCHANGED <<now, cooldown, lock, nextTrigger, archPc, coderPc,
                   startResult, lockSeen, acquiredAt, llmResult, plans, ready,
                   feed>>

\* complete_cycle: update_stage(done), then DEL evo:cycle:lock.
complete_cycle(t) ==
    /\ mgrPc[t] \in {"held", "complete_del"}
    /\ IF mgrPc[t] = "held"
       THEN /\ record' = hset_stage(record, STAGE_DONE)
            /\ mgrPc' = [mgrPc EXCEPT ![t] = "complete_del"]
            /\ UNCHANGED <<lock, finished, released>>
       ELSE /\ lock' = NoLock
            /\ mgrPc' = [mgrPc EXCEPT ![t] = "idle"]
            /\ finished' = [finished EXCEPT ![t] = "complete"]
            /\ released' = TRUE
            /\ UNCHANGED record
    /\ UNCHANGED <<patchOnly, engineOnly, worldOnly, laterOnly, bus>>
    /\ UNCHANGED <<now, cooldown, nextTrigger, archPc, coderPc, startResult,
                   lockSeen, acquiredAt, llmResult, plans, ready, feed>>

\* fail_cycle(error): HSET stage failed and the error, then DEL the lock.
fail_cycle(t) ==
    /\ mgrPc[t] \in {"held", "fail_del"}
    /\ IF mgrPc[t] = "held"
       THEN /\ record' = [hset_stage(record, STAGE_FAILED) EXCEPT !.error = TRUE]
            /\ mgrPc' = [mgrPc EXCEPT ![t] = "fail_del"]
            /\ UNCHANGED <<lock, finished, released>>
       ELSE /\ lock' = NoLock
            /\ mgrPc' = [mgrPc EXCEPT ![t] = "idle"]
            /\ finished' = [finished EXCEPT ![t] = "fail"]
            /\ released' = TRUE
            /\ UNCHANGED record
    /\ UNCHANGED <<patchOnly, engineOnly, worldOnly, laterOnly, bus>>
    /\ UNCHANGED <<now, cooldown, nextTrigger, archPc, coderPc, startResult,
                   lockSeen, acquiredAt, llmResult, plans, ready, feed>>

NextManager ==
    \/ manager_clock
    \/ \E t \in Triggers : start_cycle(t)
    \/ \E t \in Triggers : start_cycle_busy(t)
    \/ \E t \in Triggers : start_cycle_record(t)
    \/ \E t \in Triggers : update_stage(t)
    \/ \E t \in Triggers : complete_cycle(t)
    \/ \E t \in Triggers : fail_cycle(t)

SpecManager == InitManager /\ [][NextManager]_vars

\* ----------------------------------------------- claims on SpecManager

C30_StaleCallsChangeNothing ==
    [][\A t \in Triggers :
        (/\ LockExists
         /\ lock.holder # t
         /\ update_stage(t) \/ complete_cycle(t) \/ fail_cycle(t))
            => (lock' = lock /\ record' = record)]_vars

\* ----------------------------------------------------------- SpecEngine
\* The Trait Registry (register, unregister, get_snapshot) and the engine's
\* tick stages that read it: the reaping of dead entities, the
\* registry-upgrade pass and spawning.  Registry calls come from the
\* Patcher, from restore and from callers of the registry's API; they run
\* between any two stages of a tick (the tick awaits between them).
InitEngine ==
    /\ CycleAtRest
    /\ bus = <<>>
    /\ PatchAtRest
    /\ ManagerAtRest
    /\ WorldAtRest
    /\ LaterAtRest
    /\ max_active_traits \in MaxActiveTraitsChoices
    /\ dicts = << <<>> >>
    /\ traits_ref = 1
    /\ version = 0
    /\ classes = <<>>
    /\ callCount = 0
    /\ last_call = NoCall
    /\ held = <<>>
    /\ known_registry_version = 0
    /\ entity_state = [e \in Entities |-> IF e = 1 THEN "alive" ELSE "none"]
    /\ entity_traits = [e \in Entities |-> <<>>]
    /\ tickPc = "deaths"

\* DynamicRegistry.register(name, cls) for a class just loaded.
registry_register ==
    /\ callCount < MaxCalls
    /\ \E r \in Registrations, init_raises \in BOOLEAN :
        LET canon == canonical_name(r[1])
            cls == Len(classes) + 1
            c == dict_copy(dicts, traits_ref)
        IN /\ classes' = Append(classes, [key |-> canon, name |-> r[2],
                                          init_raises |-> init_raises])
           /\ dicts' = [c.heap EXCEPT ![c.ref] = dict_set(@, canon, cls)]
           /\ traits_ref' = c.ref
           /\ version' = version + 1
           /\ last_call' = [op |-> "register", key |-> canon,
                            returned |-> TRUE]
    /\ callCount' = callCount + 1
    /\ UNCHANGED <<cycleOnly, bus, patchOnly, mgrOnly, worldOnly, laterOnly>>
    /\ UNCHANGED <<max_active_traits, held, known_registry_version,
                   entity_state, entity_traits, tickPc>>

\* DynamicRegistry.unregister(name).
registry_unregister ==
    /\ callCount < MaxCalls
    /\ \E name \in RegistryNames :
        LET canon == canonical_name(name)
            c == dict_copy(dicts, traits_ref)
        IN IF ~registered(dicts[traits_ref], canon)
           THEN /\ last_call' = [op |-> "unregister", key |-> canon,
                                 returned |-> FALSE]
                /\ UNCHANGED <<dicts, traits_ref, version>>
           ELSE /\ dicts' = [c.heap EXCEPT ![c.ref] = dict_del(@, canon)]
                /\ traits_ref' = c.ref
                /\ version' = version + 1
                /\ last_call' = [op |-> "unregister", key |-> canon,
                                 returned |-> TRUE]
    /\ callCount' = callCount + 1
    /\ UNCHANGED <<cycleOnly, bus, patchOnly, mgrOnly, worldOnly, laterOnly>>
    /\ UNCHANGED <<max_active_traits, classes, held, known_registry_version,
                   entity_state, entity_traits, tickPc>>

\* A caller takes a snapshot and keeps it: get_snapshot returns the copy.
\* What the dict held when it was taken is recorded next to the reference.
get_snapshot ==
    /\ Len(held) < MaxHeld
    /\ LET c == dict_copy(dicts, traits_ref)
       IN /\ dicts' = c.heap
          /\ held' = Append(held, [ref |-> c.ref, taken |-> c.heap[c.ref]])
    /\ UNCHANGED <<cycleOnly, bus, patchOnly, mgrOnly, worldOnly, laterOnly>>
    /\ UNCHANGED <<max_active_traits, traits_ref, version, classes, callCount,
                   last_call, known_registry_version, entity_state,
                   entity_traits, tickPc>>

\* The tick up to the upgrade pass, as far as the store is concerned:
\* _update_entities marks entities dead (starvation, age), _handle_deaths
\* removes every dead entity, _handle_predators marks its victims dead.
handle_deaths ==
    /\ tickPc = "deaths"
    /\ \E starved \in SUBSET Living(entity_state) :
       \E killed \in SUBSET (Living(entity_state) \ starved) :
        /\ entity_state' =
              [e \in Entities |->
                 IF entity_state[e] = "dead" \/ e \in starved THEN "none"
                 ELSE IF e \in killed THEN "dead"
                 ELSE entity_state[e]]
        /\ entity_traits' =
              [e \in Entities |->
                 IF entity_state[e] = "dead" \/ e \in starved THEN <<>>
                 ELSE entity_traits[e]]
    /\ tickPc' = "upgrade"
    /\ UNCHANGED <<cycleOnly, bus, patchOnly, mgrOnly, worldOnly, laterOnly>>
    /\ UNCHANGED <<max_active_traits, dicts, traits_ref, version, classes,
                   callCount, last_call, held, known_registry_version>>

\* CoreEngine._apply_new_registry_traits.  The snapshot is dropped when the
\* method returns, so the heap is what it was.
apply_new_registry_traits ==
    /\ tickPc = "upgrade"
    /\ IF version <= known_registry_version
       THEN UNCHANGED <<entity_traits, known_registry_version>>
       ELSE LET c == dict_copy(dicts, traits_ref)
                trait_snapshot == c.heap[c.ref]
            IN /\ entity_traits' =
                    [e \in Entities |->
                       IF entity_state[e] = "alive"
                       THEN apply_items(classes, max_active_traits,
                                        entity_traits[e], entity_traits[e],
                                        trait_snapshot)
                       ELSE entity_traits[e]]
               /\ known_registry_version' = version
    /\ tickPc' = "spawning"
    /\ UNCHANGED <<cycleOnly, bus, patchOnly, mgrOnly, worldOnly, laterOnly>>
    /\ UNCHANGED <<max_active_traits, dicts, traits_ref, version, classes,
                   callCount, last_call, held, entity_state>>

\* CoreEngine._handle_spawning: up to _SPAWN_BATCH_SIZE entities, each with
\* one instance of every class of the snapshot.  A constructor that raises
\* ends the stage (the tick's except clause logs it).
RECURSIVE spawn(_, _, _, _)
spawn(state, traits, n, new_traits) ==
    LET free == {e \in Entities : state[e] = "none"}
    IN IF n = 0 \/ free = {} THEN [state |-> state, traits |-> traits]
       ELSE LET e == CHOOSE x \in free : \A y \in free : x <= y
            IN spawn([state EXCEPT ![e] = "alive"],
                     [traits EXCEPT ![e] = new_traits], n - 1, new_traits)

handle_spawning ==
    /\ tickPc = "spawning"
    /\ \E to_spawn \in 0..SPAWN_BATCH_SIZE :
        LET c == dict_copy(dicts, traits_ref)
            trait_snapshot == c.heap[c.ref]
            new_traits == [i \in 1..Len(trait_snapshot) |->
                              trait_snapshot[i].cls]
            raises == \E i \in 1..Len(trait_snapshot) :
                         classes[trait_snapshot[i].cls].init_raises
            after == spawn(entity_state, entity_traits,
                           IF raises THEN 0 ELSE to_spawn, new_traits)
        IN /\ entity_state' = after.state
           /\ entity_traits' = after.traits
    /\ tickPc' = "deaths"
    /\ UNCHANGED <<cycleOnly, bus, patchOnly, mgrOnly, worldOnly, laterOnly>>
    /\ UNCHANGED <<max_active_traits, dicts, traits_ref, version, classes,
                   callCount, last_call, held, known_registry_version>>

NextEngine ==
    \/ registry_register
    \/ registry_unregister
    \/ get_snapshot
    \/ handle_deaths
    \/ apply_new_registry_traits
    \/ handle_spawning

SpecEngine == InitEngine /\ [][NextEngine]_vars

\* ------------------------------------------------ claims on SpecEngine
Registered == dicts[traits_ref]

\* The engine's last upgrade pass saw the registry as it is now.
UpgradePassed == known_registry_version = version

\* C11: once a trait family has been unregistered and the upgrade pass has
\* run on the registry without it, no living entity has an instance of a
\* class of that family in its trait list.
C11_UnregisteredFamilyDropped ==
    UpgradePassed =>
        \A e \in Living(entity_state) :
            \A i \in 1..Len(entity_traits[e]) :
                classes[entity_traits[e][i]].key \in Keys(Registered)

\* C12: every entity's trait list has at most max_active_traits elements,
\* for the entities the upgrade pass updated and for the entities spawned
\* from a registry snapshot.
C12_TraitListWithinCap ==
    \A e \in Entities : Len(entity_traits[e]) <= max_active_traits

\* The classes registered under a family before the one that is registered
\* under it now: the family's older versions.
OlderVersions(family) ==
    {c \in 1..Len(classes) :
        /\ classes[c].key = family
        /\ c < dict_get(Registered, family)}

\* C13: after the upgrade pass that follows the activation of a newer
\* version of a family, every living entity that has instances of the
\* family has exactly one, and it is an instance of the newer class.
C13_UpgradeReplacesInPlace ==
    UpgradePassed =>
        \A e \in Living(entity_state) :
            \A family \in Keys(Registered) :
                LET ts == entity_traits[e]
                    insts == {i \in 1..Len(ts) : classes[ts[i]].key = family}
                IN (OlderVersions(family) # {} /\ insts # {}) =>
                      /\ Cardinality(insts) = 1
                      /\ \A i \in insts : ts[i] = dict_get(Registered, family)

\* --------------------------------------------------------- SpecRegistry
\* The Trait Registry on its own: callers register, unregister and take
\* snapshots in any order.
NextRegistry ==
    \/ registry_register
    \/ registry_unregister
    \/ get_snapshot

SpecRegistry == InitEngine /\ [][NextRegistry]_vars

C15_SnapshotStable ==
    \A i \in 1..Len(held) : dicts[held[i].ref] = held[i].taken

C15_Witness ==
    \E i \in 1..Len(held) :
        /\ held[i].taken # <<>>
        /\ Keys(Registered) # Keys(held[i].taken)
        /\ callCount = MaxCalls

\* ======================================================================
\* The tick of the world: entity update with the trait sandbox, physics,
\* the lifecycle reaper and the predator regulator.
\* ======================================================================
\* The tick is followed on the line y = const, on which the code treats x
\* exactly as it treats y on a line x = const.  The stages of the tick that
\* write neither a position nor an energy of an entity already in the store
\* (virus spread, trait upgrade, broadcast, spawning, resource respawn,
\* telemetry) are left out; an entity they add is born inside the world with
\* positive energy, which is what InitWorld draws.

Min(a, b) == IF a < b THEN a ELSE b
Abs(n) == IF n < 0 THEN 0 - n ELSE n
Sign(n) == IF n > 0 THEN 1 ELSE IF n < 0 THEN 0 - 1 ELSE 0

\* The methods class BaseEntity defines.
BaseEntityMethods == {"update", "move", "_receive_energy", "eat_nearby",
                      "attack_nearby", "is_alive", "deactivate_trait",
                      "activate_trait"}

\* Settings the predator regulator reads.
predator_spawn_threshold == 1
max_predators == 1

\* Where the entities of InitWorld stand and what energy they have.
MolbotOneXs == {10 * PosScale, 50 * PosScale}
MolbotTwoXs == {10 * PosScale + 2, 90 * PosScale}
PredatorXs == {70 * PosScale}
MolbotOneEnergies == {EnergyScale, 100 * EnergyScale}
PredatorEnergies == {50 * EnergyScale, 200 * EnergyScale}
ResourceXs == {11 * PosScale}
\* What a trait writes when it writes a field directly.
WrittenEnergy == 1000 * EnergyScale
WrittenXs == {0 - world_width, 2 * world_width}

Alive(st) == {e \in WorldIds : st[e] = "alive"}

InitWorld ==
    /\ CycleAtRest
    /\ bus = <<>>
    /\ PatchAtRest
    /\ EngineAtRest
    /\ ManagerAtRest
    /\ LaterAtRest
    /\ world_stage = "update"
    /\ ticks = 0
    /\ trait_kind \in TraitKinds
    /\ \E x1 \in MolbotOneXs, x2 \in MolbotTwoXs, xp \in PredatorXs :
           pos_x = [e \in WorldIds |->
                       IF e = "m1" THEN x1 ELSE IF e = "m2" THEN x2 ELSE xp]
    /\ \E e1 \in MolbotOneEnergies, ep \in PredatorEnergies :
           ent_energy = [e \in WorldIds |->
                            IF e = "m1" THEN e1
                            ELSE IF e = "m2" THEN DefaultMaxEnergy(e) ELSE ep]
    /\ ent_max_energy = [e \in WorldIds |-> DefaultMaxEnergy(e)]
    /\ ent_max_energy_type = [e \in WorldIds |-> "float"]
    /\ \E ps \in {"absent", "alive"} :
           ent_state = [e \in WorldIds |-> IF e = "pred" THEN ps ELSE "alive"]
    /\ \E inf \in BOOLEAN : infected = [e \in WorldIds |-> e = "m1" /\ inf]
    /\ deactivated = FALSE
    /\ trait_energy_gain = [e \in WorldIds |-> 0]
    /\ energy_snapshot = 0
    /\ energy_pre = ent_energy
    /\ busy_ms = 0
    /\ resources \in {{}, ResourceXs}

\* BaseEntity.update of the molbot with the trait, up to the call of
\* execute_traits: metabolism, the infection penalty and the snapshots.
update_entities_begin ==
    /\ world_stage = "update"
    /\ ticks < MaxTicks
    /\ energy_pre' = ent_energy
    /\ IF ent_state["m1"] = "alive"
       THEN LET after == ent_energy["m1"] - metabolism_rate("m1")
                           - (IF infected["m1"] THEN 2 * EnergyScale ELSE 0)
            IN /\ ent_energy' = [ent_energy EXCEPT !["m1"] = after]
               /\ energy_snapshot' = after
               /\ trait_energy_gain' = [trait_energy_gain EXCEPT !["m1"] = 0]
               /\ busy_ms' = 0
               /\ world_stage' = "trait"
       ELSE /\ world_stage' = "others"
            /\ UNCHANGED <<ent_energy, energy_snapshot, trait_energy_gain,
                           busy_ms>>
    /\ UNCHANGED <<ticks, trait_kind, pos_x, ent_max_energy,
                   ent_max_energy_type, ent_state, infected, deactivated,
                   resources>>
    /\ UNCHANGED <<cycleOnly, bus, patchOnly, engineOnly, mgrOnly, laterOnly>>

\* Environment.consume_resource for the molbot: it calls
\* entity.consume_resource before it removes the resource.
consume_resource(w) ==
    IF "consume_resource" \in BaseEntityMethods
    THEN [w EXCEPT !.ok = TRUE]
    ELSE [w EXCEPT !.ok = FALSE]

\* BaseEntity.eat_nearby(30.0)
eat_nearby(w) ==
    LET near == {r \in resources : Abs(r - w.x) <= 30 * PosScale}
    IN IF near = {} THEN w ELSE consume_resource(w)

\* BaseEntity.move(dx, 0)
move(x, dx) ==
    IF Abs(dx) > MAX_MOVE_PER_TICK
    THEN x + Sign(dx) * MAX_MOVE_PER_TICK
    ELSE x + dx

\* BaseEntity.attack_nearby(30.0, 20.0)
attack_nearby(w) ==
    IF ent_state["pred"] = "alive" /\ Abs(pos_x["pred"] - w.x) <= 30 * PosScale
    THEN LET left == w.pred_energy - 20 * EnergyScale
         IN [w EXCEPT !.pred_energy = left,
                      !.pred_state = IF left <= 0 THEN "dead" ELSE @]
    ELSE w

\* One call of the trait's execute(entity), for the bodies that return at
\* once: w is what the call can touch, ok whether it returned normally.
trait_body(kind, w, arg) ==
    CASE kind = "write_energy" -> [w EXCEPT !.energy = WrittenEnergy]
      [] kind = "break_cap" -> [w EXCEPT !.max_type = "NoneType"]
      [] kind = "hoard" -> [w EXCEPT !.energy = WrittenEnergy,
                                     !.max_type = "NoneType"]
      [] kind = "eat" -> eat_nearby(w)
      [] kind = "move" -> [w EXCEPT !.x = move(w.x, arg)]
      [] kind = "write_x" -> [w EXCEPT !.x = arg]
      [] kind = "attack" -> attack_nearby(w)
      [] OTHER -> w

\* TraitExecutor.execute_traits for a trait whose body returns at once, or
\* for an entity that has no trait, or whose trait is deactivated.
execute_traits ==
    /\ world_stage = "trait"
    /\ trait_kind \notin SpinKinds \cup {"yield_forever"} \/ deactivated
    /\ \E arg \in WrittenXs :
         LET w0 == [x |-> pos_x["m1"], energy |-> ent_energy["m1"],
                    max_type |-> ent_max_energy_type["m1"],
                    pred_energy |-> ent_energy["pred"],
                    pred_state |-> ent_state["pred"], ok |-> TRUE]
             w == IF trait_kind = "none" \/ deactivated
                  THEN w0
                  ELSE trait_body(trait_kind, w0, arg)
         IN /\ pos_x' = [pos_x EXCEPT !["m1"] = w.x]
            /\ ent_energy' = [ent_energy EXCEPT !["m1"] = w.energy,
                                                !["pred"] = w.pred_energy]
            /\ ent_max_energy_type' =
                   [ent_max_energy_type EXCEPT !["m1"] = w.max_type]
            /\ ent_state' = [ent_state EXCEPT !["pred"] = w.pred_state]
            /\ deactivated' = (deactivated \/ ~w.ok)
    /\ world_stage' = "post"
    /\ UNCHANGED <<ticks, trait_kind, ent_max_energy, infected,
                   trait_energy_gain, energy_snapshot, energy_pre, busy_ms,
                   resources>>
    /\ UNCHANGED <<cycleOnly, bus, patchOnly, engineOnly, mgrOnly, laterOnly>>

\* A millisecond passes while the trait's execute call is running.  A body
\* that never awaits keeps the event loop, so the timer asyncio.wait_for
\* has set cannot run; a body that awaits gives the loop back each time.
trait_busy ==
    /\ world_stage = "trait"
    /\ ~deactivated
    /\ trait_kind \in SpinKinds \cup {"yield_forever"}
    /\ busy_ms < MaxBusyMs
    /\ trait_kind = "spin" => busy_ms < SpinBurstMs
    /\ trait_kind = "yield_forever" => busy_ms < trait_timeout_ms
    /\ busy_ms' = busy_ms + 1
    /\ UNCHANGED <<world_stage, ticks, trait_kind, pos_x, ent_energy,
                   ent_max_energy, ent_max_energy_type, ent_state, infected,
                   deactivated, trait_energy_gain, energy_snapshot,
                   energy_pre, resources>>
    /\ UNCHANGED <<cycleOnly, bus, patchOnly, engineOnly, mgrOnly, laterOnly>>

\* The body that never awaits returns: wait_for hands back its result and
\* execute_trait returns True.
trait_returns ==
    /\ world_stage = "trait"
    /\ ~deactivated
    /\ trait_kind = "spin"
    /\ busy_ms = SpinBurstMs
    /\ world_stage' = "post"
    /\ UNCHANGED <<ticks, trait_kind, pos_x, ent_energy, ent_max_energy,
                   ent_max_energy_type, ent_state, infected, deactivated,
                   trait_energy_gain, energy_snapshot, energy_pre, busy_ms,
                   resources>>
    /\ UNCHANGED <<cycleOnly, bus, patchOnly, engineOnly, mgrOnly, laterOnly>>

\* The timer of wait_for runs while the body is suspended: the call is
\* cancelled, execute_trait returns False and the trait is deactivated.
trait_timeout ==
    /\ world_stage = "trait"
    /\ ~deactivated
    /\ trait_kind = "yield_forever"
    /\ busy_ms = trait_timeout_ms
    /\ deactivated' = TRUE
    /\ world_stage' = "post"
    /\ UNCHANGED <<ticks, trait_kind, pos_x, ent_energy, ent_max_energy,
                   ent_max_energy_type, ent_state, infected,
                   trait_energy_gain, energy_snapshot, energy_pre, busy_ms,
                   resources>>
    /\ UNCHANGED <<cycleOnly, bus, patchOnly, engineOnly, mgrOnly, laterOnly>>

\* BaseEntity.update after execute_traits: min() raises TypeError when
\* max_energy is not a number, and _update_entities catches it.
update_entities_end ==
    /\ world_stage = "post"
    /\ IF ent_max_energy_type["m1"] # "float"
       THEN UNCHANGED <<ent_energy, ent_state>>
       ELSE LET kept == Min(energy_snapshot + trait_energy_gain["m1"],
                            ent_max_energy["m1"])
            IN /\ ent_energy' = [ent_energy EXCEPT !["m1"] = kept]
               /\ ent_state' = [ent_state EXCEPT !["m1"] =
                                   IF kept <= 0 THEN "dead" ELSE @]
    /\ world_stage' = "others"
    /\ UNCHANGED <<ticks, trait_kind, pos_x, ent_max_energy,
                   ent_max_energy_type, infected, deactivated,
                   trait_energy_gain, energy_snapshot, energy_pre, busy_ms,
                   resources>>
    /\ UNCHANGED <<cycleOnly, bus, patchOnly, engineOnly, mgrOnly, laterOnly>>

\* The update of the entities that carry no trait: BaseEntity.update of the
\* second molbot and PredatorEntity.update.
update_entities_rest ==
    /\ world_stage = "others"
    /\ LET m2 == Min(ent_energy["m2"] - metabolism_rate("m2"),
                     ent_max_energy["m2"])
           pr == ent_energy["pred"] - metabolism_rate("pred")
           upd(e) == IF e = "m2" THEN m2 ELSE IF e = "pred" THEN pr
                     ELSE ent_energy[e]
           run(e) == e # "m1" /\ ent_state[e] = "alive"
       IN /\ ent_energy' = [e \in WorldIds |->
                               IF run(e) THEN upd(e) ELSE ent_energy[e]]
          /\ ent_state' = [e \in WorldIds |->
                              IF run(e) /\ upd(e) <= 0 THEN "dead"
                              ELSE ent_state[e]]
          /\ trait_energy_gain' = [e \in WorldIds |->
                                      IF run(e) /\ e = "m2" THEN 0
                                      ELSE trait_energy_gain[e]]
    /\ world_stage' = "physics"
    /\ UNCHANGED <<ticks, trait_kind, pos_x, ent_max_energy,
                   ent_max_energy_type, infected, deactivated,
                   energy_snapshot, energy_pre, busy_ms, resources>>
    /\ UNCHANGED <<cycleOnly, bus, patchOnly, engineOnly, mgrOnly, laterOnly>>

\* WorldPhysics.apply_bounds in "bounce" mode
apply_bounds(e, x) ==
    IF x - radius(e) < 0 THEN radius(e)
    ELSE IF x + radius(e) > world_width THEN world_width - radius(e)
    ELSE x

\* WorldPhysics.resolve_collision(a, b) on the positions xs
resolve_collision(xs, a, b) ==
    LET dx == xs[b] - xs[a]
        nx == Sign(dx)
        overlap == (radius(a) + radius(b)) - Abs(dx)
        separation == overlap \div 2 + PosScale \div 10
    IN IF overlap > 0
       THEN [xs EXCEPT ![a] = @ - nx * separation,
                       ![b] = @ + nx * separation]
       ELSE xs

\* EntityManager.detect_collisions: the pairs it reports, on positions xs
detect_collisions(xs, alive) ==
    {pr \in {<<"m1", "m2">>, <<"m1", "pred">>, <<"m2", "pred">>} :
        /\ pr[1] \in alive
        /\ pr[2] \in alive
        /\ Abs(xs[pr[1]] - xs[pr[2]]) <= 3 * radius(pr[1])
        /\ Abs(xs[pr[1]] - xs[pr[2]]) < radius(pr[1]) + radius(pr[2])}

\* The orders in which detect_collisions can list the pairs: by the first
\* entity in store order, the neighbours of one entity in set order.
CollisionOrders ==
    {<< <<"m1", "m2">>, <<"m1", "pred">>, <<"m2", "pred">> >>,
     << <<"m1", "pred">>, <<"m1", "m2">>, <<"m2", "pred">> >>}

RECURSIVE resolve_all(_, _, _)
resolve_all(xs, found, order) ==
    IF order = <<>> THEN xs
    ELSE LET pr == Head(order)
             next == IF pr \in found
                     THEN resolve_collision(xs, pr[1], pr[2])
                     ELSE xs
         IN resolve_all(next, found, Tail(order))

\* CoreEngine._apply_physics
apply_physics ==
    /\ world_stage = "physics"
    /\ LET alive == Alive(ent_state)
           bounded == [e \in WorldIds |->
                          IF e \in alive THEN apply_bounds(e, pos_x[e])
                          ELSE pos_x[e]]
           found == detect_collisions(bounded, alive)
       IN \E order \in CollisionOrders :
              pos_x' = resolve_all(bounded, found, order)
    /\ world_stage' = "deaths"
    /\ UNCHANGED <<ticks, trait_kind, ent_energy, ent_max_energy,
                   ent_max_energy_type, ent_state, infected, deactivated,
                   trait_energy_gain, energy_snapshot, energy_pre, busy_ms,
                   resources>>
    /\ UNCHANGED <<cycleOnly, bus, patchOnly, engineOnly, mgrOnly, laterOnly>>

\* CoreEngine._handle_deaths on the store of the world
world_handle_deaths ==
    /\ world_stage = "deaths"
    /\ ent_state' = [e \in WorldIds |->
                        IF ent_state[e] = "alive" THEN "alive" ELSE "absent"]
    /\ world_stage' = "predators"
    /\ UNCHANGED <<ticks, trait_kind, pos_x, ent_energy, ent_max_energy,
                   ent_max_energy_type, infected, deactivated,
                   trait_energy_gain, energy_snapshot, energy_pre, busy_ms,
                   resources>>
    /\ UNCHANGED <<cycleOnly, bus, patchOnly, engineOnly, mgrOnly, laterOnly>>

\* CoreEngine._handle_predators, the last stage of the tick that is
\* followed: a predator is spawned when one is due, and the predator that
\* was alive when the stage began hunts the nearest molbot.
handle_predators ==
    /\ world_stage = "predators"
    /\ LET alive == Alive(ent_state)
           molbots == alive \cap Molbots
           hunting == "pred" \in alive
           due == /\ Cardinality(molbots) > predator_spawn_threshold
                  /\ Cardinality(alive \ Molbots) < max_predators
           targets == {m \in molbots :
                          Abs(pos_x[m] - pos_x["pred"]) <= 200 * PosScale}
           nearest == {m \in targets : \A o \in targets :
                          Abs(pos_x[m] - pos_x["pred"])
                              <= Abs(pos_x[o] - pos_x["pred"])}
       IN IF due
          THEN \E px \in PredatorXs \cup {0, world_width} :
                  /\ pos_x' = [pos_x EXCEPT !["pred"] = px]
                  /\ ent_energy' = [ent_energy EXCEPT
                                       !["pred"] = DefaultMaxEnergy("pred")]
                  /\ energy_pre' = [energy_pre EXCEPT
                                       !["pred"] = DefaultMaxEnergy("pred")]
                  /\ ent_state' = [ent_state EXCEPT !["pred"] = "alive"]
          ELSE IF hunting /\ targets # {}
          THEN \E target \in nearest :
                  LET dx == pos_x[target] - pos_x["pred"]
                      dist == Abs(dx)
                      kill == dist < radius("pred") + radius(target)
                  IN /\ pos_x' = [pos_x EXCEPT !["pred"] =
                                     IF dist > 0
                                     THEN move(@, Sign(dx) * 20 * PosScale)
                                     ELSE @]
                     /\ ent_state' = [ent_state EXCEPT ![target] =
                                         IF kill THEN "dead" ELSE @]
                     /\ ent_energy' = [ent_energy EXCEPT !["pred"] =
                                          IF kill
                                          THEN Min(@ + 80 * EnergyScale,
                                                   ent_max_energy["pred"])
                                          ELSE @]
                     /\ UNCHANGED energy_pre
          ELSE UNCHANGED <<pos_x, ent_state, ent_energy, energy_pre>>
    /\ world_stage' = "update"
    /\ ticks' = ticks + 1
    /\ UNCHANGED <<trait_kind, ent_max_energy, ent_max_energy_type, infected,
                   deactivated, trait_energy_gain, energy_snapshot, busy_ms,
                   resources>>
    /\ UNCHANGED <<cycleOnly, bus, patchOnly, engineOnly, mgrOnly, laterOnly>>

NextWorld ==
    \/ update_entities_begin
    \/ execute_traits
    \/ trait_busy
    \/ trait_returns
    \/ trait_timeout
    \/ update_entities_end
    \/ update_entities_rest
    \/ apply_physics
    \/ world_handle_deaths
    \/ handle_predators

SpecWorld == InitWorld /\ [][NextWorld]_vars

\* The tick has ended and the next has not begun.
TickEnded == world_stage = "update" /\ ticks > 0

InStore == {e \in WorldIds : ent_state[e] # "absent"}

\* C17: when a tick has ended, no entity in the store has more energy than
\* it had when the tick began plus what its successful eat_nearby calls of
\* the tick delivered; what a trait wrote to energy directly is gone.
C17_EnergyOnlyFromEating ==
    TickEnded =>
        \A e \in InStore : ent_energy[e] - energy_pre[e] <= trait_energy_gain[e]

\* C18: when a tick has ended, every entity in the store stands inside the
\* world, 0 <= x <= world_width (and likewise for y), whatever the traits,
\* the collision separation and the predator did to it during the tick.
C18_InsideWorld ==
    TickEnded =>
        \A e \in InStore : 0 <= pos_x[e] /\ pos_x[e] <= world_width

\* C19: when a tick has ended, every entity whose state is alive has
\* energy > 0.
C19_AliveHasEnergy ==
    TickEnded =>
        \A e \in InStore : ent_state[e] = "alive" => ent_energy[e] > 0

\* C20: no execute call of a trait holds the tick loop for longer than
\* trait_timeout_sec.
C20_TraitCallWithinTimeout ==
    busy_ms <= trait_timeout_ms

\* ======================================================================
\* TraitExecutor.execute_traits on one entity, with the registry's upgrade
\* pass between two ticks.
\* ======================================================================
tick_budget_ms == 14
max_active_traits_default == 30

\* The trait classes this entity meets: two versions of the family
\* energy_pulse whose classes are named differently, and two more families.
ExClasses ==
    << [name |-> "EnergyPulseTrait", init_raises |-> FALSE],
       [name |-> "EnergyPulse", init_raises |-> FALSE],
       [name |-> "Swarm", init_raises |-> FALSE],
       [name |-> "Shield", init_raises |-> FALSE] >>
ExClassIds == 1..Len(ExClasses)
class_name(c) == ExClasses[c].name

\* The trait lists the entity can have been spawned with.
ExSpawned == {<<1>>, <<1, 3>>, <<1, 3, 4>>}
registry_of(ts) ==
    [i \in 1..Len(ts) |-> [key |-> canonical_name(class_name(ts[i])),
                           cls |-> ts[i]]]

\* How one execute call ends, and what loop time it takes when its body
\* returns or raises before the timeout.
Outcomes == {"returned", "raised", "timeout"}
CostsMs == {0, 2, trait_timeout_ms}

InitExecutor ==
    /\ CycleAtRest
    /\ bus = <<>>
    /\ PatchAtRest
    /\ EngineAtRest
    /\ ManagerAtRest
    /\ WorldAtRest
    /\ ReapAtRest
    /\ TraitErrorAtRest
    /\ RetentionAtRest
    /\ CoderAtRest
    /\ FitnessAtRest
    /\ LoadAtRest
    /\ PipeAtRest
    /\ EventBusAtRest
    /\ WatcherAtRest
    /\ ProposeAtRest
    /\ LoopAtRest
    /\ MoveAtRest
    /\ ex_traits \in ExSpawned
    /\ ex_registry = registry_of(ex_traits)
    /\ ex_deactivated = {}
    /\ ex_idx = 0
    /\ ex_elapsed = 0
    /\ ex_ran = 0
    /\ ex_failed = FALSE
    /\ ex_runs = 0
    /\ ex_pending = FALSE

\* execute_traits up to its loop: tick_start is taken.
execute_traits_begin ==
    /\ ex_idx = 0
    /\ ex_runs < MaxRuns
    /\ IF ex_traits = <<>>
       THEN ex_idx' = 0 /\ ex_runs' = ex_runs + 1
       ELSE ex_idx' = 1 /\ ex_runs' = ex_runs
    /\ ex_elapsed' = 0
    /\ ex_ran' = 0
    /\ ex_failed' = FALSE
    /\ UNCHANGED <<ex_traits, ex_deactivated, ex_registry, ex_pending>>
    /\ UNCHANGED notExecutor

\* One pass of the loop of execute_traits: the budget check, the skip of a
\* deactivated name, execute_trait and the deactivation on failure.
execute_traits_step ==
    /\ ex_idx \in 1..Len(ex_traits)
    /\ LET c == ex_traits[ex_idx]
           trait_name == class_name(c)
           last == ex_idx = Len(ex_traits)
       IN IF ex_elapsed >= tick_budget_ms
          THEN /\ ex_idx' = 0
               /\ ex_runs' = ex_runs + 1
               /\ ex_ran' = 0
               /\ ex_failed' = FALSE
               /\ UNCHANGED <<ex_elapsed, ex_deactivated>>
          ELSE /\ ex_idx' = IF last THEN 0 ELSE ex_idx + 1
               /\ ex_runs' = IF last THEN ex_runs + 1 ELSE ex_runs
               /\ IF trait_name \in ex_deactivated
                  THEN /\ ex_ran' = 0
                       /\ ex_failed' = FALSE
                       /\ UNCHANGED <<ex_elapsed, ex_deactivated>>
                  ELSE \E outcome \in Outcomes, cost \in CostsMs :
                          /\ outcome = "timeout" => cost = trait_timeout_ms
                          /\ ex_elapsed' = ex_elapsed + cost
                          /\ ex_ran' = c
                          /\ ex_failed' = (outcome # "returned")
                          /\ ex_deactivated' =
                                 IF outcome # "returned"
                                 THEN ex_deactivated \cup {trait_name}
                                 ELSE ex_deactivated
    /\ UNCHANGED <<ex_traits, ex_registry, ex_pending>>
    /\ UNCHANGED notExecutor

\* DynamicRegistry.register(name, cls) of a loaded class, between two ticks.
executor_register ==
    /\ ex_idx = 0
    /\ \E c \in ExClassIds :
          /\ ex_registry' =
                 dict_set(ex_registry, canonical_name(class_name(c)), c)
          /\ ex_registry' # ex_registry
    /\ ex_pending' = TRUE
    /\ ex_ran' = 0
    /\ ex_failed' = FALSE
    /\ UNCHANGED <<ex_traits, ex_deactivated, ex_idx, ex_elapsed, ex_runs>>
    /\ UNCHANGED notExecutor

\* CoreEngine._apply_new_registry_traits for this entity.
executor_upgrade ==
    /\ ex_idx = 0
    /\ ex_pending
    /\ ex_traits' = apply_items(ExClasses, max_active_traits_default,
                                ex_traits, ex_traits, ex_registry)
    /\ ex_pending' = FALSE
    /\ ex_ran' = 0
    /\ ex_failed' = FALSE
    /\ UNCHANGED <<ex_deactivated, ex_registry, ex_idx, ex_elapsed, ex_runs>>
    /\ UNCHANGED notExecutor

\* BaseEntity.activate_trait(trait_name): the explicit reactivation.
activate_trait ==
    /\ ex_idx = 0
    /\ \E n \in ex_deactivated : ex_deactivated' = ex_deactivated \ {n}
    /\ ex_ran' = 0
    /\ ex_failed' = FALSE
    /\ UNCHANGED <<ex_traits, ex_registry, ex_idx, ex_elapsed, ex_runs,
                   ex_pending>>
    /\ UNCHANGED notExecutor

NextExecutor ==
    \/ execute_traits_begin
    \/ execute_traits_step
    \/ executor_register
    \/ executor_upgrade
    \/ activate_trait

SpecExecutor == InitExecutor /\ [][NextExecutor]_vars

\* C21: the time one call of execute_traits has spent on the entity's
\* traits never exceeds the budget tick_time_budget_sec.
C21_WithinBudget ==
    ex_elapsed <= tick_budget_ms

DeactivatedFamilies(names) == {canonical_name(n) : n \in names}

\* C22: a trait is executed only when the canonical name of its family is
\* not among the entity's deactivated names, and when its execution times
\* out or raises, that canonical name is among them afterwards.
C22_DeactivatedFamilyNotRun ==
    [][ex_ran' # 0 =>
         LET family == canonical_name(class_name(ex_ran'))
         IN /\ family \notin DeactivatedFamilies(ex_deactivated)
            /\ ex_failed' => family \in DeactivatedFamilies(ex_deactivated')]_vars

\* ======================================================================
\* EventBus: the listener thread, the event loop's ready queue, _dispatch
\* and the start of the handlers.
\* ======================================================================
CH_MUTATION_APPLIED == "ch:mutation:applied"
CH_FEED == "ch:feed"
BusChannels == {CH_MUTATION_APPLIED, CH_FEED}

\* EventBus._handlers: per channel the (handler, event_type) pairs in the
\* order of the subscribe calls.
bus_handlers(ch) ==
    IF ch = CH_MUTATION_APPLIED
    THEN << [handler |-> "gatekeeper_applied", typed |-> FALSE],
            [handler |-> "watcher_applied", typed |-> FALSE] >>
    ELSE << [handler |-> "on_feed_event", typed |-> TRUE] >>

\* Whether the handler reaches an await that suspends it.
suspends(h) == h # "watcher_applied"

\* What a publisher can send: a payload the event type accepts, a JSON
\* object with fields it does not accept, and bytes that are not JSON.
PayloadKinds == {"event", "other_fields", "not_json"}

\* The callback the event loop runs next: its ready queue is first in,
\* first out.
ready_take_last(q) == Len(q)
ready_take(q) == 1

RemoveAt(q, i) == SubSeq(q, 1, i - 1) \o SubSeq(q, i + 1, Len(q))

InitBus ==
    /\ CycleAtRest
    /\ bus = <<>>
    /\ PatchAtRest
    /\ EngineAtRest
    /\ ManagerAtRest
    /\ WorldAtRest
    /\ ReapAtRest
    /\ TraitErrorAtRest
    /\ RetentionAtRest
    /\ CoderAtRest
    /\ FitnessAtRest
    /\ LoadAtRest
    /\ PipeAtRest
    /\ ExecutorAtRest
    /\ WatcherAtRest
    /\ ProposeAtRest
    /\ LoopAtRest
    /\ MoveAtRest
    /\ bus_published = <<>>
    /\ bus_wire = <<>>
    /\ loop_ready = <<>>
    /\ bus_observed = [h \in BusHandlers |-> <<>>]
    /\ bus_active = {}

\* A PUBLISH reaches Redis, which sends the message on to the subscriber.
bus_publish ==
    /\ Len(bus_published) < MaxPublished
    /\ \E ch \in BusChannels, kind \in PayloadKinds :
          LET msg == [id |-> Len(bus_published) + 1, ch |-> ch, kind |-> kind]
          IN /\ bus_published' = Append(bus_published, msg)
             /\ bus_wire' = Append(bus_wire, msg)
    /\ UNCHANGED <<loop_ready, bus_observed, bus_active>>
    /\ UNCHANGED notEventBus

\* _sync_listen_thread: the thread reads the next message, drops it when
\* json.loads fails, and hands loop.create_task(_dispatch(..)) to the loop
\* with call_soon_threadsafe.
sync_listen_thread ==
    /\ bus_wire # <<>>
    /\ LET msg == Head(bus_wire)
       IN loop_ready' = IF msg.kind = "not_json"
                        THEN loop_ready
                        ELSE Append(loop_ready, [run |-> "create_task",
                                                 handler |-> "none",
                                                 msg |-> msg])
    /\ bus_wire' = Tail(bus_wire)
    /\ UNCHANGED <<bus_published, bus_observed, bus_active>>
    /\ UNCHANGED notEventBus

\* The handler tasks _dispatch creates for one message, in the order of
\* _handlers[channel]; event_type(**data) that raises creates none.
RECURSIVE dispatch_tasks(_, _)
dispatch_tasks(msg, handlers) ==
    IF handlers = <<>> THEN <<>>
    ELSE LET h == Head(handlers)
             rest == dispatch_tasks(msg, Tail(handlers))
         IN IF h.typed /\ msg.kind # "event"
            THEN rest
            ELSE <<[run |-> "handler", handler |-> h.handler,
                    msg |-> msg]>> \o rest

\* One iteration of the event loop: it runs the next ready callback.  The
\* create_task callback makes the _dispatch task ready; the _dispatch task
\* runs to its end, it has no await; a handler task runs up to its first
\* suspension, or to its end if it has none.
loop_run_once ==
    /\ loop_ready # <<>>
    /\ LET i == ready_take(loop_ready)
           item == loop_ready[i]
           rest == RemoveAt(loop_ready, i)
       IN CASE item.run = "create_task" ->
                 /\ loop_ready' = Append(rest, [item EXCEPT !.run = "dispatch"])
                 /\ UNCHANGED <<bus_observed, bus_active>>
            [] item.run = "dispatch" ->
                 /\ loop_ready' =
                        rest \o dispatch_tasks(item.msg, bus_handlers(item.msg.ch))
                 /\ UNCHANGED <<bus_observed, bus_active>>
            [] item.run = "handler" ->
                 /\ loop_ready' = rest
                 /\ bus_observed' =
                        [bus_observed EXCEPT ![item.handler] =
                            Append(@, item.msg.id)]
                 /\ bus_active' =
                        IF suspends(item.handler)
                        THEN bus_active \cup {<<item.handler, item.msg.id>>}
                        ELSE bus_active
    /\ UNCHANGED <<bus_published, bus_wire>>
    /\ UNCHANGED notEventBus

\* What a suspended handler invocation waited for arrives, and it runs to
\* its end.
handler_returns ==
    /\ \E inv \in bus_active : bus_active' = bus_active \ {inv}
    /\ UNCHANGED <<bus_published, bus_wire, loop_ready, bus_observed>>
    /\ UNCHANGED notEventBus

NextBus ==
    \/ bus_publish
    \/ sync_listen_thread
    \/ loop_run_once
    \/ handler_returns

SpecBus == InitBus /\ [][NextBus]_vars

\* The ids of the messages of published that handler h is to be given.
Subscribed(h, ch) ==
    \E i \in 1..Len(bus_handlers(ch)) : bus_handlers(ch)[i].handler = h
Typed(h, ch) ==
    \E i \in 1..Len(bus_handlers(ch)) :
        bus_handlers(ch)[i].handler = h /\ bus_handlers(ch)[i].typed
RECURSIVE DueTo(_, _)
DueTo(h, published) ==
    IF published = <<>> THEN <<>>
    ELSE LET msg == Head(published)
             due == /\ Subscribed(h, msg.ch)
                    /\ msg.kind # "not_json"
                    /\ Typed(h, msg.ch) => msg.kind = "event"
         IN (IF due THEN <<msg.id>> ELSE <<>>) \o DueTo(h, Tail(published))
IsPrefix(a, b) == Len(a) <= Len(b) /\ SubSeq(b, 1, Len(a)) = a

\* C25: every handler is started on the messages of its channel in the
\* order in which they were published, none twice and none skipped that it
\* is to be given.
C25_PublishOrder ==
    \A h \in BusHandlers : IsPrefix(bus_observed[h], DueTo(h, bus_published))

C25_Witness ==
    /\ Len(bus_observed["gatekeeper_applied"]) >= 2
    /\ bus_observed["on_feed_event"] # <<>>
    /\ bus_observed["on_feed_event"][1] > bus_observed["gatekeeper_applied"][1]
    /\ bus_observed["on_feed_event"][1] < bus_observed["gatekeeper_applied"][2]

\* C26: of one handler at most one invocation is under way: the next one
\* starts only when the one before it has returned.
C26_OneInvocationAtATime ==
    \A inv1, inv2 \in bus_active : inv1[1] = inv2[1] => inv1 = inv2

\* ----------------------------------------------------------- SpecWatcher
\* WatcherAgent: _handle_telemetry, which the EventBus starts as one task
\* per telemetry event, and the loop of run, which calls
\* _maybe_periodic_trigger once a second.  An action is the code of a
\* coroutine up to and including the Redis command it then awaits.
periodic_evolution_interval_sec == 30
\* The wall clock of this specification advances in steps of the small
\* override of the cooldown.
WatchStepSec == evolution_cooldown_sec \div 6

WatcherPcs == {"none", "load_snapshot", "publish_feed", "publish_trigger",
               "on_cooldown", "returned"}

can_trigger_evolution(last, t, cd) ==
    IF last = NoTime THEN TRUE ELSE t - last >= cd

\* _maybe_periodic_trigger: self._last_trigger_time = now
periodic_keeps_cooldown(t, last) == last
periodic_resets_cooldown(t, last) == t

periodic_due ==
    ~(/\ last_periodic_trigger_time # NoTime
      /\ w_now - last_periodic_trigger_time < periodic_evolution_interval_sec)

InitWatcher ==
    /\ CycleAtRest
    /\ bus = <<>>
    /\ PatchAtRest
    /\ EngineAtRest
    /\ ManagerAtRest
    /\ WorldAtRest
    /\ ReapAtRest
    /\ TraitErrorAtRest
    /\ RetentionAtRest
    /\ CoderAtRest
    /\ FitnessAtRest
    /\ LoadAtRest
    /\ PipeAtRest
    /\ ExecutorAtRest
    /\ EventBusAtRest
    /\ ProposeAtRest
    /\ LoopAtRest
    /\ MoveAtRest
    /\ w_now = 0
    /\ w_cooldown \in CooldownChoices
    /\ last_trigger_time = NoTime
    /\ last_periodic_trigger_time = NoTime
    /\ w_pc = [e \in TelemetryIds |-> "none"]
    /\ w_triggers = <<>>

\* The task of a telemetry event starts: up to await self._load_snapshot.
telemetry_received(e) ==
    /\ w_pc[e] = "none"
    /\ \A f \in TelemetryIds : f < e => w_pc[f] # "none"
    /\ w_pc' = [w_pc EXCEPT ![e] = "load_snapshot"]
    /\ UNCHANGED <<w_now, w_cooldown, last_trigger_time,
                   last_periodic_trigger_time, w_triggers>>
    /\ UNCHANGED notWatcher

\* The snapshot is there or not; detect_anomalies; the first feed message.
snapshot_loaded(e) ==
    /\ w_pc[e] = "load_snapshot"
    /\ \E found \in BOOLEAN, anomalies \in BOOLEAN :
           w_pc' = [w_pc EXCEPT ![e] = IF found /\ anomalies
                                       THEN "publish_feed"
                                       ELSE "returned"]
    /\ UNCHANGED <<w_now, w_cooldown, last_trigger_time,
                   last_periodic_trigger_time, w_triggers>>
    /\ UNCHANGED notWatcher

\* After the feed messages: the cooldown check and the publish of the
\* trigger, which the handler then awaits.
feed_published(e) ==
    /\ w_pc[e] = "publish_feed"
    /\ IF can_trigger_evolution(last_trigger_time, w_now, w_cooldown)
       THEN /\ w_triggers' = Append(w_triggers,
                                    [kind |-> "anomaly", at |-> w_now])
            /\ w_pc' = [w_pc EXCEPT ![e] = "publish_trigger"]
       ELSE /\ w_pc' = [w_pc EXCEPT ![e] = "on_cooldown"]
            /\ UNCHANGED w_triggers
    /\ UNCHANGED <<w_now, w_cooldown, last_trigger_time,
                   last_periodic_trigger_time>>
    /\ UNCHANGED notWatcher

\* The publish has returned: self._last_trigger_time = time.time().
trigger_published(e) ==
    /\ w_pc[e] = "publish_trigger"
    /\ last_trigger_time' = w_now
    /\ w_pc' = [w_pc EXCEPT ![e] = "returned"]
    /\ UNCHANGED <<w_now, w_cooldown, last_periodic_trigger_time, w_triggers>>
    /\ UNCHANGED notWatcher

maybe_periodic_trigger ==
    /\ periodic_due
    /\ last_periodic_trigger_time' = w_now
    /\ last_trigger_time' = periodic_resets_cooldown(w_now, last_trigger_time)
    /\ w_triggers' = Append(w_triggers,
                            [kind |-> "periodic_improvement", at |-> w_now])
    /\ UNCHANGED <<w_now, w_cooldown, w_pc>>
    /\ UNCHANGED notWatcher

\* Time passes.  The loop of run looks once a second, so a periodic trigger
\* that is due is published before a step of the clock has gone by.
watcher_clock ==
    /\ w_now < MaxWatchSteps * WatchStepSec
    /\ ~periodic_due
    /\ w_now' = w_now + WatchStepSec
    /\ UNCHANGED <<w_cooldown, last_trigger_time, last_periodic_trigger_time,
                   w_pc, w_triggers>>
    /\ UNCHANGED notWatcher

NextWatcher ==
    \/ \E e \in TelemetryIds : telemetry_received(e)
    \/ \E e \in TelemetryIds : snapshot_loaded(e)
    \/ \E e \in TelemetryIds : feed_published(e)
    \/ \E e \in TelemetryIds : trigger_published(e)
    \/ maybe_periodic_trigger
    \/ watcher_clock

SpecWatcher == InitWatcher /\ [][NextWatcher]_vars

C24_AnomalyTriggersApart ==
    \A i, j \in 1..Len(w_triggers) :
        /\ i < j
        /\ w_triggers[i].kind = "anomaly"
        /\ w_triggers[j].kind = "anomaly"
        => w_triggers[j].at - w_triggers[i].at >= w_cooldown

\* ----------------------------------------------------------- SpecPropose
\* propose_mutation with _check_rate_limits, request by request, and the
\* Gatekeeper's handling of the accepted proposals.  An action is the code
\* of a coroutine up to and including the Redis command it then awaits;
\* what the code does with the command's reply is decided from the reply.
ip_limit_per_min == 10
agent_limit_per_hour == 60
agent_active_limit == 5

RequestPcs == {"incr_ip", "incr_hr", "get_active", "persist", "incr_active"}
\* The record exists and its status is queued, validating or sandbox_ok.
InFlightPcs == {"persist", "incr_active", "queued", "validating",
                "sandbox_ok"}

\* _check_rate_limits: if active >= 5: raise HTTPException(429)
too_many_active(active) == active >= agent_active_limit

\* _decrement_active: DECR, and SET 0 if the result is negative.
decrement_active(active) == IF active - 1 < 0 THEN 0 ELSE active - 1

InitPropose ==
    /\ CycleAtRest
    /\ bus = <<>>
    /\ PatchAtRest
    /\ EngineAtRest
    /\ ManagerAtRest
    /\ WorldAtRest
    /\ ReapAtRest
    /\ TraitErrorAtRest
    /\ RetentionAtRest
    /\ CoderAtRest
    /\ FitnessAtRest
    /\ LoadAtRest
    /\ PipeAtRest
    /\ ExecutorAtRest
    /\ EventBusAtRest
    /\ WatcherAtRest
    /\ LoopAtRest
    /\ MoveAtRest
    /\ rl_ip = 0
    /\ rl_hr = 0
    /\ rl_active = 0
    /\ prop_pc = [p \in ProposalIds |-> "none"]
    /\ gk_busy = 0

\* A request arrives: INCR of the per-address counter.
propose_request(p) ==
    /\ prop_pc[p] = "none"
    /\ \A q \in ProposalIds : q < p => prop_pc[q] # "none"
    /\ Cardinality({q \in ProposalIds : prop_pc[q] \in RequestPcs})
           < MaxConcurrent
    /\ rl_ip' = rl_ip + 1
    /\ prop_pc' = [prop_pc EXCEPT ![p] = IF rl_ip' > ip_limit_per_min
                                         THEN "too_many" ELSE "incr_ip"]
    /\ UNCHANGED <<rl_hr, rl_active, gk_busy>>
    /\ UNCHANGED notPropose

\* INCR of the per-agent hourly counter.
check_agent_hour(p) ==
    /\ prop_pc[p] = "incr_ip"
    /\ rl_hr' = rl_hr + 1
    /\ prop_pc' = [prop_pc EXCEPT ![p] = IF rl_hr' > agent_limit_per_hour
                                         THEN "too_many" ELSE "incr_hr"]
    /\ UNCHANGED <<rl_ip, rl_active, gk_busy>>
    /\ UNCHANGED notPropose

\* GET of the active counter and the comparison with the limit.
check_active(p) ==
    /\ prop_pc[p] = "incr_hr"
    /\ prop_pc' = [prop_pc EXCEPT ![p] = IF too_many_active(rl_active)
                                         THEN "too_many" ELSE "get_active"]
    /\ UNCHANGED <<rl_ip, rl_hr, rl_active, gk_busy>>
    /\ UNCHANGED notPropose

\* HSET of the record with status queued, EXPIRE, SET of the source.
persist_record(p) ==
    /\ prop_pc[p] = "get_active"
    /\ prop_pc' = [prop_pc EXCEPT ![p] = "persist"]
    /\ UNCHANGED <<rl_ip, rl_hr, rl_active, gk_busy>>
    /\ UNCHANGED notPropose

\* INCR of the active counter.
incr_active(p) ==
    /\ prop_pc[p] = "persist"
    /\ rl_active' = rl_active + 1
    /\ prop_pc' = [prop_pc EXCEPT ![p] = "incr_active"]
    /\ UNCHANGED <<rl_ip, rl_hr, gk_busy>>
    /\ UNCHANGED notPropose

\* LPUSH to agent:mutation:queue; the request returns 202.
enqueue(p) ==
    /\ prop_pc[p] = "incr_active"
    /\ prop_pc' = [prop_pc EXCEPT ![p] = "queued"]
    /\ UNCHANGED <<rl_ip, rl_hr, rl_active, gk_busy>>
    /\ UNCHANGED notPropose

\* _process_queue takes an id; _handle_mutation marks the record validating.
handle_mutation(p) ==
    /\ gk_busy = 0
    /\ prop_pc[p] = "queued"
    /\ prop_pc' = [prop_pc EXCEPT ![p] = "validating"]
    /\ gk_busy' = p
    /\ UNCHANGED <<rl_ip, rl_hr, rl_active>>
    /\ UNCHANGED notPropose

\* _handle_mutation: rejected by the validator or for a failed file write
\* (with _decrement_active), or sandbox_ok.
handle_mutation_verdict(p) ==
    /\ gk_busy = p
    /\ \E ok \in BOOLEAN :
           IF ok
           THEN /\ prop_pc' = [prop_pc EXCEPT ![p] = "sandbox_ok"]
                /\ UNCHANGED rl_active
           ELSE /\ prop_pc' = [prop_pc EXCEPT ![p] = "rejected"]
                /\ rl_active' = decrement_active(rl_active)
    /\ gk_busy' = 0
    /\ UNCHANGED <<rl_ip, rl_hr>>
    /\ UNCHANGED notPropose

\* _handle_applied: activated; the counter stays.
proposal_applied(p) ==
    /\ prop_pc[p] = "sandbox_ok"
    /\ prop_pc' = [prop_pc EXCEPT ![p] = "activated"]
    /\ UNCHANGED <<rl_ip, rl_hr, rl_active, gk_busy>>
    /\ UNCHANGED notPropose

\* _handle_failed: rejected, _decrement_active.
proposal_failed(p) ==
    /\ prop_pc[p] = "sandbox_ok"
    /\ prop_pc' = [prop_pc EXCEPT ![p] = "rejected"]
    /\ rl_active' = decrement_active(rl_active)
    /\ UNCHANGED <<rl_ip, rl_hr, gk_busy>>
    /\ UNCHANGED notPropose

\* _handle_rollback: rolled_back, _decrement_active.
proposal_rolled_back(p) ==
    /\ prop_pc[p] = "activated"
    /\ prop_pc' = [prop_pc EXCEPT ![p] = "rolled_back"]
    /\ rl_active' = decrement_active(rl_active)
    /\ UNCHANGED <<rl_ip, rl_hr, gk_busy>>
    /\ UNCHANGED notPropose

NextPropose ==
    \/ \E p \in ProposalIds : propose_request(p)
    \/ \E p \in ProposalIds : check_agent_hour(p)
    \/ \E p \in ProposalIds : check_active(p)
    \/ \E p \in ProposalIds : persist_record(p)
    \/ \E p \in ProposalIds : incr_active(p)
    \/ \E p \in ProposalIds : enqueue(p)
    \/ \E p \in ProposalIds : handle_mutation(p)
    \/ \E p \in ProposalIds : handle_mutation_verdict(p)
    \/ \E p \in ProposalIds : proposal_applied(p)
    \/ \E p \in ProposalIds : proposal_failed(p)
    \/ \E p \in ProposalIds : proposal_rolled_back(p)

SpecPropose == InitPropose /\ [][NextPropose]_vars

\* C27: of one agent at most 5 proposed mutations are in flight.
C27_AtMostFiveInFlight ==
    Cardinality({p \in ProposalIds : prop_pc[p] \in InFlightPcs})
        <= agent_active_limit

\* -------------------------------------------------------------- SpecLoop
\* CoreEngine.run: the stages of a tick inside its one try block.  A stage
\* returns or raises; asyncio.CancelledError is not an Exception and is
\* not modelled.
stats_interval == 100
snapshot_interval_ticks == 300
broadcast_interval == 2

\* The calls of one tick, in the order of the try block.  The engine runs
\* with a WebSocket manager and without a database pool.
TickStages(tick) ==
    <<"_update_entities", "_apply_physics", "_handle_deaths",
      "_handle_predators", "_handle_virus", "_apply_new_registry_traits">>
    \o (IF tick % broadcast_interval = 0
        THEN <<"_broadcast_world_state">> ELSE <<>>)
    \o <<"_handle_spawning", "_respawn_resources">>
    \o (IF tick % stats_interval = 0 THEN <<"_log_statistics">> ELSE <<>>)
    \o (IF tick % snapshot_interval_ticks = 0
        THEN <<"_collect_and_send_telemetry">> ELSE <<>>)

\* tick_counter when run is entered: a new world, or one that has been
\* running and is about to reach a tick on which every stage is due.
TickStarts == {0, snapshot_interval_ticks - 1}

TickOver == Len(TickStages(tick_counter)) + 1

InitLoop ==
    /\ CycleAtRest
    /\ bus = <<>>
    /\ PatchAtRest
    /\ EngineAtRest
    /\ ManagerAtRest
    /\ WorldAtRest
    /\ ReapAtRest
    /\ TraitErrorAtRest
    /\ RetentionAtRest
    /\ CoderAtRest
    /\ FitnessAtRest
    /\ LoadAtRest
    /\ PipeAtRest
    /\ ExecutorAtRest
    /\ EventBusAtRest
    /\ WatcherAtRest
    /\ ProposeAtRest
    /\ MoveAtRest
    /\ tick_counter \in TickStarts
    /\ loop_ticks = 0
    /\ loop_pos = 0
    /\ loop_ran = <<>>
    /\ loop_raised = ""
    /\ tick_errors = 0

\* while self.running: self.tick_counter += 1
tick_begin ==
    /\ loop_pos = 0
    /\ loop_ticks < MaxLoopTicks
    /\ tick_counter' = tick_counter + 1
    /\ loop_ticks' = loop_ticks + 1
    /\ loop_pos' = 1
    /\ loop_ran' = <<>>
    /\ loop_raised' = ""
    /\ UNCHANGED tick_errors
    /\ UNCHANGED notLoop

\* The stage returns: the next statement of the try block.
stage_returns ==
    /\ loop_pos \in 1..Len(TickStages(tick_counter))
    /\ loop_ran' = Append(loop_ran, TickStages(tick_counter)[loop_pos])
    /\ loop_pos' = loop_pos + 1
    /\ UNCHANGED <<tick_counter, loop_ticks, loop_raised, tick_errors>>
    /\ UNCHANGED notLoop

\* The stage raises: except Exception logs tick_error; control is then
\* behind the try block.
stage_raises ==
    /\ loop_pos \in 1..Len(TickStages(tick_counter))
    /\ loop_raised' = TickStages(tick_counter)[loop_pos]
    /\ tick_errors' = tick_errors + 1
    /\ loop_pos' = TickOver
    /\ UNCHANGED <<tick_counter, loop_ticks, loop_ran>>
    /\ UNCHANGED notLoop

\* await asyncio.sleep(sleep_time)
tick_sleep ==
    /\ loop_pos = TickOver
    /\ loop_pos' = 0
    /\ UNCHANGED <<tick_counter, loop_ticks, loop_ran, loop_raised,
                   tick_errors>>
    /\ UNCHANGED notLoop

NextLoop ==
    \/ tick_begin
    \/ stage_returns
    \/ stage_raises
    \/ tick_sleep

SpecLoop == InitLoop /\ [][NextLoop]_vars

RECURSIVE Without(_, _)
Without(stages, s) ==
    IF stages = <<>> THEN <<>>
    ELSE IF Head(stages) = s THEN Without(Tail(stages), s)
    ELSE <<Head(stages)>> \o Without(Tail(stages), s)

\* C28: when a tick in which a stage raised is over, the failure has been
\* logged and every other stage of the tick has run, in the fixed order.
C28_RemainingStagesRun ==
    (loop_pos = TickOver /\ loop_raised # "")
        => /\ tick_errors > 0
           /\ loop_ran = Without(TickStages(tick_counter), loop_raised)

\* -------------------------------------------------------------- SpecMove
\* BaseEntity.move(dx, dy) on floats.  Finite values are whole numbers of
\* 1/PosScale px; the square root is rounded up and the scaled components
\* are rounded towards zero, so the rounding of the model never lengthens a
\* displacement.
MoveInputsPx == {0 - 40, 0 - 4, 0, 3, 30, 100}
MoveInputs ==
    {Fin(px * PosScale) : px \in MoveInputsPx}
        \cup {Big(1), Inf(1), Inf(0 - 1), NaN}
StartCoordsPx == {0, 100}

\* The least r in lo..hi with r * r >= n.
RECURSIVE SqrtSearch(_, _, _)
SqrtSearch(n, lo, hi) ==
    IF lo = hi THEN lo
    ELSE LET mid == (lo + hi) \div 2
         IN IF mid * mid >= n
            THEN SqrtSearch(n, lo, mid)
            ELSE SqrtSearch(n, mid + 1, hi)
Trunc(a, b) == Sign(a) * (Abs(a) \div b)

\* dx * dx + dy * dy
sum_of_squares(dx, dy) ==
    IF dx.k = "nan" \/ dy.k = "nan" THEN NaN
    ELSE IF dx.k \in {"big", "inf"} \/ dy.k \in {"big", "inf"} THEN Inf(1)
    ELSE Fin(dx.v * dx.v + dy.v * dy.v)

\* math.sqrt(dx * dx + dy * dy), which is at most |dx| + |dy|
sqrt_of_squares(dx, dy) ==
    LET sq == sum_of_squares(dx, dy)
    IN IF sq.k = "fin"
       THEN Fin(SqrtSearch(sq.v, 0, Abs(dx.v) + Abs(dy.v)))
       ELSE sq

\* magnitude > self._MAX_MOVE_PER_TICK: false for not a number
exceeds(magnitude) ==
    \/ magnitude.k = "inf"
    \/ magnitude.k = "fin" /\ magnitude.v > MAX_MOVE_PER_TICK

\* d *= self._MAX_MOVE_PER_TICK / magnitude, for a magnitude that exceeds
scaled(d, magnitude) ==
    IF magnitude.k = "inf"
    THEN IF d.k \in {"fin", "big"} THEN Fin(0) ELSE NaN
    ELSE Fin(Trunc(d.v * MAX_MOVE_PER_TICK, magnitude.v))

\* self.x += dx, for a finite x
pos_add(x, d) == IF d.k = "fin" THEN Fin(x + d.v) ELSE d

clamped(d, magnitude) == IF exceeds(magnitude) THEN scaled(d, magnitude) ELSE d

InitMove ==
    /\ CycleAtRest
    /\ bus = <<>>
    /\ PatchAtRest
    /\ EngineAtRest
    /\ ManagerAtRest
    /\ WorldAtRest
    /\ ReapAtRest
    /\ TraitErrorAtRest
    /\ RetentionAtRest
    /\ CoderAtRest
    /\ FitnessAtRest
    /\ LoadAtRest
    /\ PipeAtRest
    /\ ExecutorAtRest
    /\ EventBusAtRest
    /\ WatcherAtRest
    /\ ProposeAtRest
    /\ LoopAtRest
    /\ \E x, y \in StartCoordsPx :
           /\ mv_x = Fin(x * PosScale)
           /\ mv_y = Fin(y * PosScale)
           /\ mv_from_x = x * PosScale
           /\ mv_from_y = y * PosScale
    /\ mv_moves = 0

entity_move ==
    /\ mv_moves < MaxMoves
    /\ mv_x.k = "fin"
    /\ mv_y.k = "fin"
    /\ \E dx, dy \in MoveInputs :
           LET magnitude == sqrt_of_squares(dx, dy)
           IN /\ mv_x' = pos_add(mv_x.v, clamped(dx, magnitude))
              /\ mv_y' = pos_add(mv_y.v, clamped(dy, magnitude))
    /\ mv_from_x' = mv_x.v
    /\ mv_from_y' = mv_y.v
    /\ mv_moves' = mv_moves + 1
    /\ UNCHANGED notMove

NextMove == entity_move

SpecMove == InitMove /\ [][NextMove]_vars

\* C29: whatever (dx, dy) is asked for, the entity ends a call of move at
\* most MAX_MOVE_PER_TICK from where it was.
C29_MoveClamped ==
    mv_moves > 0 =>
        /\ mv_x.k = "fin"
        /\ mv_y.k = "fin"
        /\ (mv_x.v - mv_from_x) * (mv_x.v - mv_from_x)
             + (mv_y.v - mv_from_y) * (mv_y.v - mv_from_y)
               <= MAX_MOVE_PER_TICK * MAX_MOVE_PER_TICK

\* ---------------------------------------------------------- SpecPipeline
\* One cycle per trigger, step by step through Architect, Coder and
\* Patcher, with every call the pipeline makes on the cycle manager.  The
\* interleaving inside the calls is SpecCycle's; here a call is one step.
InitPipeline ==
    /\ CycleAtRest
    /\ bus = <<>>
    /\ PatchAtRest
    /\ EngineAtRest
    /\ ManagerAtRest
    /\ WorldAtRest
    /\ ReapAtRest
    /\ TraitErrorAtRest
    /\ RetentionAtRest
    /\ CoderAtRest
    /\ FitnessAtRest
    /\ LoadAtRest
    /\ ExecutorAtRest
    /\ EventBusAtRest
    /\ WatcherAtRest
    /\ ProposeAtRest
    /\ LoopAtRest
    /\ MoveAtRest
    /\ pipe_pc = [t \in Triggers |-> "idle"]

PipeCycleUnchanged ==
    UNCHANGED <<cooldown, nextTrigger, archPc, coderPc, startResult,
                lockSeen, acquiredAt, llmResult, plans, ready, feed>>

\* handle_trigger: start_cycle acquires (SET NX EX, HSET, EXPIRE) or the
\* trigger is skipped.
pipe_handle_trigger(t) ==
    /\ pipe_pc[t] = "idle"
    /\ IF set_nx(lock)
       THEN /\ lock' = [holder |-> t, expiresAt |-> now + ttl_sec(cooldown)]
            /\ record' = [hset_stage(record, STAGE_PLANNING) EXCEPT
                             !.trigger_id = t,
                             !.expiresAt = now + ttl_sec(cooldown)]
            /\ pipe_pc' = [pipe_pc EXCEPT ![t] = "planning"]
       ELSE /\ pipe_pc' = [pipe_pc EXCEPT ![t] = "skipped"]
            /\ UNCHANGED <<lock, record>>
    /\ UNCHANGED now
    /\ PipeCycleUnchanged
    /\ UNCHANGED notPipe

\* handle_trigger: no plan, fail_cycle; or the plan is published and
\* update_stage("coding") follows.
pipe_plan(t) ==
    /\ pipe_pc[t] = "planning"
    /\ \E planned \in BOOLEAN :
           IF planned
           THEN /\ record' = hset_stage(record, STAGE_CODING)
                /\ pipe_pc' = [pipe_pc EXCEPT ![t] = "coding"]
                /\ UNCHANGED lock
           ELSE /\ record' = [hset_stage(record, STAGE_FAILED) EXCEPT
                                 !.error = TRUE]
                /\ lock' = NoLock
                /\ pipe_pc' = [pipe_pc EXCEPT ![t] = "plan_failed"]
    /\ UNCHANGED now
    /\ PipeCycleUnchanged
    /\ UNCHANGED notPipe

\* handle_plan: Mutation Ready is published, or the Coder gives up.  The
\* Coder has no cycle manager.
pipe_code(t) ==
    /\ pipe_pc[t] = "coding"
    /\ \E outcome \in {"ready", "gave_up"} :
           pipe_pc' = [pipe_pc EXCEPT ![t] = outcome]
    /\ UNCHANGED <<now, lock, record>>
    /\ PipeCycleUnchanged
    /\ UNCHANGED notPipe

\* _handle_mutation_ready: Mutation Applied or Mutation Failed is
\* published.  The Patcher has no cycle manager.
pipe_mutation_ready(t) ==
    /\ pipe_pc[t] = "ready"
    /\ \E outcome \in {"applied", "failed"} :
           pipe_pc' = [pipe_pc EXCEPT ![t] = outcome]
    /\ UNCHANGED <<now, lock, record>>
    /\ PipeCycleUnchanged
    /\ UNCHANGED notPipe

\* Time passes; Redis drops the keys whose TTL has run out.
pipe_clock ==
    /\ now < MaxClock * ClockStepSec
    /\ now' = now + ClockStepSec
    /\ lock' = ExpireLock(lock, now')
    /\ record' = ExpireRecord(record, now')
    /\ UNCHANGED pipe_pc
    /\ PipeCycleUnchanged
    /\ UNCHANGED notPipe

NextPipeline ==
    \/ \E t \in Triggers : pipe_handle_trigger(t)
    \/ \E t \in Triggers : pipe_plan(t)
    \/ \E t \in Triggers : pipe_code(t)
    \/ \E t \in Triggers : pipe_mutation_ready(t)
    \/ pipe_clock

SpecPipeline == InitPipeline /\ [][NextPipeline]_vars

\* Every step that can be taken is taken in the end: the handlers run and
\* the clock goes on.
SpecPipelineFair == SpecPipeline /\ WF_vars(NextPipeline)

CycleClosed(t) ==
    /\ record.exists
    /\ record.trigger_id = t
    /\ record.stage \in {STAGE_DONE, STAGE_FAILED}
    /\ lock.holder # t

\* C31: once the Patcher has published Mutation Applied or Mutation Failed
\* for the mutation of a cycle, the cycle's stage becomes done or failed
\* and its lock key is deleted.
C31_CycleClosedByPipeline ==
    \A t \in Triggers :
        (pipe_pc[t] \in {"applied", "failed"}) ~> CycleClosed(t)

\* --------------------------------------------- SpecPatch, every step taken
\* The Gatekeeper's loop, the bus and the Patcher's handlers run whenever
\* they can: each step that stays possible is taken in the end.
SpecPatchFair ==
    /\ SpecPatch
    /\ WF_vars(gatekeeper_take)
    /\ WF_vars(gatekeeper_validate)
    /\ WF_vars(gatekeeper_publish_ready)
    /\ WF_vars(handle_mutation_ready_validate)
    /\ WF_vars(\E m \in Mutations : handle_mutation_ready_load(m))
    /\ WF_vars(\E m \in Mutations : handle_mutation_ready_publish(m))
    /\ WF_vars(dispatch_applied)
    /\ WF_vars(dispatch_failed)
    /\ WF_vars(dispatch_rollback)
    /\ WF_vars(\E m \in Mutations : handle_rollback_hset(m))
    /\ WF_vars(handle_telemetry)

\* C32: a proposed mutation accepted with status queued reaches status
\* activated or rejected.
C32_QueuedIsSettled ==
    \A m \in Mutations :
        (mutOrigin[m] = "external" /\ status[m] = "queued")
            ~> (status[m] \in {"activated", "rejected"})

\* ------------------------------------------------- SpecLoad, file to class
\* The mutation files of the mutations directory.
MaxPaths == 2

Paths == 1..MaxPaths

NoFile == "none"

\* Source texts: two that the Code Validator accepts and one it rejects
\* (a banned import, say), which Python still imports without an error.
Texts == {"valid_a", "valid_b", "banned"}

\* CodeValidator.validate on a text, reduced to its verdict.
passes_validator(text) == text \in {"valid_a", "valid_b"}

InitLoad ==
    /\ CycleAtRest
    /\ bus = <<>>
    /\ PatchAtRest
    /\ EngineAtRest
    /\ ManagerAtRest
    /\ WorldAtRest
    /\ ReapAtRest
    /\ TraitErrorAtRest
    /\ RetentionAtRest
    /\ CoderAtRest
    /\ FitnessAtRest
    /\ PipeAtRest
    /\ ExecutorAtRest
    /\ EventBusAtRest
    /\ WatcherAtRest
    /\ ProposeAtRest
    /\ LoopAtRest
    /\ MoveAtRest
    /\ ld_file = [p \in Paths |-> NoFile]
    /\ ld_checked = [p \in Paths |-> NoFile]
    /\ ld_pc = [p \in Paths |-> "idle"]
    /\ ld_row = [p \in Paths |-> NoFile]
    /\ ld_active = [p \in Paths |-> FALSE]
    /\ ld_registry = {}

\* CoderAgent._generate_and_save (and the Gatekeeper alike): the code has
\* passed the validator, is written to the file, Mutation Ready is published
\* and the row is saved with the code as its source_code.
coder_saves(p, text) ==
    /\ ld_pc[p] = "idle"
    /\ passes_validator(text)
    /\ ld_file' = [ld_file EXCEPT ![p] = text]
    /\ ld_row' = [ld_row EXCEPT ![p] = text]
    /\ ld_pc' = [ld_pc EXCEPT ![p] = "ready"]
    /\ UNCHANGED <<ld_checked, ld_active, ld_registry>>
    /\ UNCHANGED notLoad

\* Another writer of the mutations directory replaces or removes the file.
file_rewritten(p, text) ==
    /\ ld_file[p] # text
    /\ ld_file' = [ld_file EXCEPT ![p] = text]
    /\ UNCHANGED <<ld_checked, ld_pc, ld_row, ld_active, ld_registry>>
    /\ UNCHANGED notLoad

\* RuntimePatcher._validate_mutation: read the file, validate what was read.
patcher_validates(p) ==
    /\ ld_pc[p] = "ready"
    /\ IF ld_file[p] # NoFile /\ passes_validator(ld_file[p])
       THEN /\ ld_checked' = [ld_checked EXCEPT ![p] = ld_file[p]]
            /\ ld_pc' = [ld_pc EXCEPT ![p] = "validated"]
       ELSE /\ ld_pc' = [ld_pc EXCEPT ![p] = "failed"]
            /\ UNCHANGED ld_checked
    /\ UNCHANGED <<ld_file, ld_row, ld_active, ld_registry>>
    /\ UNCHANGED notLoad

\* RuntimePatcher._load_module and the registration: importlib executes the
\* file at the path as it is now; the class found is registered.
patcher_loads(p) ==
    /\ ld_pc[p] = "validated"
    /\ IF ld_file[p] = NoFile
       THEN /\ ld_pc' = [ld_pc EXCEPT ![p] = "failed"]
            /\ UNCHANGED <<ld_active, ld_registry>>
       ELSE /\ ld_registry' = ld_registry \cup {ld_file[p]}
            /\ ld_active' = [ld_active EXCEPT ![p] = TRUE]
            /\ ld_pc' = [ld_pc EXCEPT ![p] = "loaded"]
    /\ UNCHANGED <<ld_file, ld_checked, ld_row>>
    /\ UNCHANGED notLoad

\* The file of path p after restore_from_checkpoint: written from the row
\* only when it is missing.
restored_file(p) ==
    IF ld_active[p] /\ ld_file[p] = NoFile THEN ld_row[p] ELSE ld_file[p]

\* restore_from_checkpoint in a fresh process: for every active row the file
\* is written if missing, executed, and its class registered.
restore_from_checkpoint ==
    /\ \E p \in Paths : ld_active[p]
    /\ ld_file' = [p \in Paths |-> restored_file(p)]
    /\ ld_registry' = {restored_file(p) : p \in {q \in Paths : ld_active[q]}}
    /\ ld_pc' = [p \in Paths |-> "idle"]
    /\ ld_checked' = [p \in Paths |-> NoFile]
    /\ UNCHANGED <<ld_row, ld_active>>
    /\ UNCHANGED notLoad

NextLoad ==
    \/ \E p \in Paths, text \in Texts : coder_saves(p, text)
    \/ \E p \in Paths, text \in Texts \cup {NoFile} : file_rewritten(p, text)
    \/ \E p \in Paths : patcher_validates(p)
    \/ \E p \in Paths : patcher_loads(p)
    \/ restore_from_checkpoint

SpecLoad == InitLoad /\ [][NextLoad]_vars

\* C33: every class in the registry was loaded from a text the validator
\* accepts.
C33_RegisteredFromValidated ==
    \A text \in ld_registry : passes_validator(text)

\* ------------------------------------------- SpecFitness, fitness rollback
MaxFitMutations == 2

MaxFitSnapshots == 3

FitMutations == 1..MaxFitMutations

\* Entity counts a snapshot can carry.
FitCounts == {0, 70, 100}

NoPrevSnapshot == [tick |-> -1, count |-> 0]

FitIdle ==
    [active |-> FALSE, tick |-> 0, count |-> 0, pos |-> 0, used |-> 0,
     remove |-> {}]

InitFitness ==
    /\ CycleAtRest
    /\ bus = <<>>
    /\ PatchAtRest
    /\ EngineAtRest
    /\ ManagerAtRest
    /\ WorldAtRest
    /\ ReapAtRest
    /\ TraitErrorAtRest
    /\ RetentionAtRest
    /\ CoderAtRest
    /\ LoadAtRest
    /\ PipeAtRest
    /\ ExecutorAtRest
    /\ EventBusAtRest
    /\ WatcherAtRest
    /\ ProposeAtRest
    /\ LoopAtRest
    /\ MoveAtRest
    /\ fit_ticks = 0
    /\ fit_prev = NoPrevSnapshot
    /\ fit_pending = <<>>
    /\ fit_applied = {}
    /\ fit_run = FitIdle
    /\ fit_evals = [m \in FitMutations |-> 0]
    /\ fit_rollbacks = [m \in FitMutations |-> 0]

\* The window of an entry has passed at a snapshot of this tick.
window_passed(entry, tick) == tick > entry.after

\* The entry makes _check_fitness publish a Mutation Rollback.
publishes_rollback(entry, tick, count) ==
    /\ window_passed(entry, tick)
    /\ entry.baseline # 0
    /\ rolls_back(count, entry.baseline)

\* Index of the first entry after pos that publishes, 0 when there is none.
first_publish(pos, tick, count) ==
    LET hits == {i \in (pos + 1)..Len(fit_pending) :
                    publishes_rollback(fit_pending[i], tick, count)}
    IN  IF hits = {} THEN 0
        ELSE CHOOSE i \in hits : \A j \in hits : i <= j

\* The loop of _check_fitness from the entry after pos up to its next await
\* (the publish of a rollback) or to its end, where the entries of to_remove
\* are deleted and the handler goes on to set _prev_snapshot.
check_fitness_from(pos, tick, count, used, remove) ==
    LET k == first_publish(pos, tick, count)
        upto == IF k = 0 THEN Len(fit_pending) ELSE k
        seen == {fit_pending[i].id : i \in
                    {j \in (pos + 1)..upto :
                        window_passed(fit_pending[j], tick)}}
        gone == remove \cup seen
    IN  /\ fit_evals' = [m \in FitMutations |->
                            fit_evals[m] + (IF m \in seen THEN 1 ELSE 0)]
        /\ IF k # 0
           THEN /\ fit_rollbacks' =
                       [fit_rollbacks EXCEPT ![fit_pending[k].id] = @ + 1]
                /\ fit_run' = [active |-> TRUE, tick |-> tick,
                               count |-> count, pos |-> k, used |-> used,
                               remove |-> gone]
                /\ UNCHANGED <<fit_pending, fit_prev>>
           ELSE /\ fit_pending' =
                       SelectSeq(fit_pending, LAMBDA e : e.id \notin gone)
                /\ fit_prev' = [tick |-> tick, count |-> count]
                /\ fit_run' = FitIdle
                /\ UNCHANGED fit_rollbacks

\* _handle_telemetry: the snapshot is loaded and _check_fitness starts.
fitness_telemetry(count) ==
    /\ ~fit_run.active
    /\ fit_ticks < MaxFitSnapshots
    /\ fit_ticks' = fit_ticks + 1
    /\ check_fitness_from(0, fit_ticks + 1, count, Len(fit_pending), {})
    /\ UNCHANGED fit_applied
    /\ UNCHANGED notFitness

\* The publish returns and the for loop asks the dict iterator for the next
\* item: a dict that has grown meanwhile raises RuntimeError, which
\* _handle_telemetry catches; nothing is deleted, _prev_snapshot stays.
fitness_publish_returns ==
    /\ fit_run.active
    /\ IF Len(fit_pending) # fit_run.used
       THEN /\ fit_run' = FitIdle
            /\ UNCHANGED <<fit_pending, fit_prev, fit_evals, fit_rollbacks>>
       ELSE check_fitness_from(fit_run.pos, fit_run.tick, fit_run.count,
                               fit_run.used, fit_run.remove)
    /\ UNCHANGED <<fit_ticks, fit_applied>>
    /\ UNCHANGED notFitness

\* _handle_mutation_applied: the baseline is the previous snapshot's count.
fitness_mutation_applied(m) ==
    /\ m \notin fit_applied
    /\ fit_applied' = fit_applied \cup {m}
    /\ IF fit_prev = NoPrevSnapshot
       THEN UNCHANGED fit_pending
       ELSE fit_pending' = Append(fit_pending,
                [id |-> m, baseline |-> fit_prev.count,
                 after |-> fit_prev.tick])
    /\ UNCHANGED <<fit_ticks, fit_prev, fit_run, fit_evals, fit_rollbacks>>
    /\ UNCHANGED notFitness

NextFitness ==
    \/ \E count \in FitCounts : fitness_telemetry(count)
    \/ fitness_publish_returns
    \/ \E m \in FitMutations : fitness_mutation_applied(m)

SpecFitness == InitFitness /\ [][NextFitness]_vars

\* C34: a mutation with a baseline is evaluated once: after its evaluation
\* its pending record is gone, rollback published or not.
C34_EvaluatedOnce ==
    \A m \in FitMutations :
        /\ fit_evals[m] <= 1
        /\ (~fit_run.active /\ fit_evals[m] = 1)
               => \A i \in 1..Len(fit_pending) : fit_pending[i].id # m

\* ------------------------------------------ SpecPatch, the version carried
\* C35: right after a mutation's registration the Patcher's
\* _registry_version, which its Mutation Applied then carries, is the
\* registry's version counter.
C35_AppliedCarriesRegistryVersion ==
    [][\A m \in Mutations :
          (handle_mutation_ready_load(m) /\ patchPc'[m] = "registered")
              => registry_version' = registry'.version]_vars

\* ------------------------------------------------ SpecPatch, the used set
\* C36: a hash enters the used set only in the step in which the Patcher has
\* loaded and registered a mutation with that source; validation and failed
\* attempts add nothing.
C36_HashUsedOnlyAfterLoad ==
    [][\A code \in Codes :
          (code \in usedHashes' /\ code \notin usedHashes)
              => \E m \in Mutations :
                    /\ mutCode[m] = code
                    /\ load_module_ok(code)
                    /\ patchPc[m] = "validated"
                    /\ patchPc'[m] = "registered"]_vars

\* A loaded mutation's hash is in the used set while a mutation that failed
\* at the Patcher has left no hash behind.
C36_Witness ==
    \E m1, m2 \in Mutations :
        /\ patchPc[m1] \in {"registered", "applied"}
        /\ mutCode[m1] \in usedHashes
        /\ patchPc[m2] \in {"failed_validation", "failed_import",
                            "failed_execution"}
        /\ mutCode[m2] \notin usedHashes

\* ------------------------------------------------ SpecCoder, plan to file
MaxPlans == 2

\* Calls of _generate_code the model follows per plan.
MaxLlmCalls == 3

CoderPlans == 1..MaxPlans

\* What _generate_code returns: a source the validator accepts, one it
\* rejects, or None when the LLM failed.
LlmOutputs == {"valid", "invalid", "none"}

InitCoder ==
    /\ CycleAtRest
    /\ bus = <<>>
    /\ PatchAtRest
    /\ EngineAtRest
    /\ ManagerAtRest
    /\ WorldAtRest
    /\ ReapAtRest
    /\ TraitErrorAtRest
    /\ RetentionAtRest
    /\ FitnessAtRest
    /\ LoadAtRest
    /\ PipeAtRest
    /\ ExecutorAtRest
    /\ EventBusAtRest
    /\ WatcherAtRest
    /\ ProposeAtRest
    /\ LoopAtRest
    /\ MoveAtRest
    /\ cd_pc = [p \in CoderPlans |-> "idle"]
    /\ cd_code = [p \in CoderPlans |-> "none"]
    /\ cd_calls = [p \in CoderPlans |-> 0]
    /\ cd_invalid = [p \in CoderPlans |-> 0]
    /\ cd_retry_err = [p \in CoderPlans |-> FALSE]
    /\ cd_feed = [p \in CoderPlans |-> {}]
    /\ cd_ready = [p \in CoderPlans |-> 0]

\* _generate_and_save_code after a source failed validation: the first
\* failure regenerates, the failure of the regenerated source gives up.
always_regenerate(failures) == "regenerate"
after_invalid(failures) ==
    IF failures = 1 THEN "regenerate" ELSE "give_up"

\* handle_plan: the coding feed message, then the first _generate_code.
handle_plan(p) ==
    /\ cd_pc[p] = "idle"
    /\ cd_feed' = [cd_feed EXCEPT ![p] = @ \cup {"coding"}]
    /\ cd_calls' = [cd_calls EXCEPT ![p] = 1]
    /\ cd_pc' = [cd_pc EXCEPT ![p] = "generating"]
    /\ UNCHANGED <<cd_code, cd_invalid, cd_retry_err, cd_ready>>
    /\ UNCHANGED notCoder

\* _generate_code returns: None ends the handler with the failed feed
\* message, a source goes to validator.validate.
generate_code_returns(p, out) ==
    /\ cd_pc[p] = "generating"
    /\ cd_code' = [cd_code EXCEPT ![p] = out]
    /\ IF out = "none"
       THEN /\ cd_feed' = [cd_feed EXCEPT ![p] = @ \cup {"failed"}]
            /\ cd_pc' = [cd_pc EXCEPT ![p] = "failed"]
       ELSE /\ cd_pc' = [cd_pc EXCEPT ![p] = "validating"]
            /\ UNCHANGED cd_feed
    /\ UNCHANGED <<cd_calls, cd_invalid, cd_retry_err, cd_ready>>
    /\ UNCHANGED notCoder

\* validator.validate returns: a valid source is written and Mutation Ready
\* published; an invalid one is regenerated with previous_error, or given up
\* with the validation_failed and failed feed messages.
validate_returns(p) ==
    /\ cd_pc[p] = "validating"
    /\ IF cd_code[p] = "valid"
       THEN /\ cd_ready' = [cd_ready EXCEPT ![p] = @ + 1]
            /\ cd_feed' = [cd_feed EXCEPT ![p] = @ \cup {"mutation_ready"}]
            /\ cd_pc' = [cd_pc EXCEPT ![p] = "ready"]
            /\ UNCHANGED <<cd_calls, cd_invalid, cd_retry_err>>
       ELSE /\ cd_invalid' = [cd_invalid EXCEPT ![p] = @ + 1]
            /\ IF /\ after_invalid(cd_invalid[p] + 1) = "regenerate"
                  /\ cd_calls[p] < MaxLlmCalls
               THEN /\ cd_calls' = [cd_calls EXCEPT ![p] = @ + 1]
                    /\ cd_retry_err' = [cd_retry_err EXCEPT ![p] = TRUE]
                    /\ cd_pc' = [cd_pc EXCEPT ![p] = "generating"]
                    /\ UNCHANGED <<cd_feed, cd_ready>>
               ELSE /\ cd_feed' = [cd_feed EXCEPT ![p] =
                                      @ \cup {"validation_failed", "failed"}]
                    /\ cd_pc' = [cd_pc EXCEPT ![p] = "failed"]
                    /\ UNCHANGED <<cd_calls, cd_retry_err, cd_ready>>
    /\ UNCHANGED cd_code
    /\ UNCHANGED notCoder

NextCoder ==
    \/ \E p \in CoderPlans : handle_plan(p)
    \/ \E p \in CoderPlans, out \in LlmOutputs : generate_code_returns(p, out)
    \/ \E p \in CoderPlans : validate_returns(p)

SpecCoder == InitCoder /\ [][NextCoder]_vars

\* C37: per plan the Coder generates at most twice, the second time only
\* after a validation failure and with that error in the prompt; after a
\* second validation failure it has published the validation_failed feed
\* message and no Mutation Ready.
C37_RetriesAtMostOnce ==
    \A p \in CoderPlans :
        /\ cd_calls[p] <= 2
        /\ cd_calls[p] = 2 => (cd_invalid[p] >= 1 /\ cd_retry_err[p])
        /\ (cd_invalid[p] = 1 /\ cd_pc[p] # "validating") => cd_calls[p] = 2
        /\ cd_invalid[p] >= 2 =>
              /\ cd_pc[p] = "failed"
              /\ "validation_failed" \in cd_feed[p]
              /\ cd_ready[p] = 0

\* A plan whose two sources both failed validation.
C37_Witness ==
    \E p \in CoderPlans :
        /\ cd_invalid[p] = 2
        /\ cd_calls[p] = 2
        /\ cd_pc[p] = "failed"

\* ------------------------------------------- SpecRetention, files kept
\* Files written per family.
MaxVersionsWritten == 4

RtFamilies == {"energy_pulse", "resource_diversifier"}

\* DynamicRegistry.register's default for max_versions.
max_versions == 3

\* file_path=None, the default of DynamicRegistry.register.
NoPath == <<>>

InitRetention ==
    /\ CycleAtRest
    /\ bus = <<>>
    /\ PatchAtRest
    /\ EngineAtRest
    /\ ManagerAtRest
    /\ WorldAtRest
    /\ ReapAtRest
    /\ TraitErrorAtRest
    /\ CoderAtRest
    /\ FitnessAtRest
    /\ LoadAtRest
    /\ PipeAtRest
    /\ ExecutorAtRest
    /\ EventBusAtRest
    /\ WatcherAtRest
    /\ ProposeAtRest
    /\ LoopAtRest
    /\ MoveAtRest
    /\ rt_disk = {}
    /\ rt_written = [f \in RtFamilies |-> 0]
    /\ rt_activated = {}
    /\ rt_family_files = [f \in RtFamilies |-> <<>>]

\* The tail of a list that is left when its oldest entries are popped until
\* at most max entries remain, and the entries popped.
kept_files(list, max) ==
    IF Len(list) > max THEN SubSeq(list, Len(list) - max + 1, Len(list))
    ELSE list
evicted_files(list, max) ==
    IF Len(list) > max THEN {list[i] : i \in 1..(Len(list) - max)} ELSE {}

\* DynamicRegistry.register, the family tracking: with a file path the path
\* is appended and the overflow evicted and returned; without one the lists
\* stay as they are and nothing is returned.
register_files(family_files, canon, file_path, max) ==
    IF file_path = NoPath
    THEN [files |-> family_files, delete |-> {}]
    ELSE LET list == Append(family_files[canon], file_path)
         IN  [files |-> [family_files EXCEPT ![canon] =
                              kept_files(list, max)],
              delete |-> evicted_files(list, max)]

\* What the Patcher passes as file_path: register(trait_name, trait_class).
patcher_file_path(path) == NoPath

\* The Coder (or the Gatekeeper) writes the file of a new mutation.
mutation_file_written(f) ==
    /\ rt_written[f] < MaxVersionsWritten
    /\ rt_written' = [rt_written EXCEPT ![f] = @ + 1]
    /\ rt_disk' = rt_disk \cup {<<f, rt_written[f] + 1>>}
    /\ UNCHANGED <<rt_activated, rt_family_files>>
    /\ UNCHANGED notRetention

\* _handle_mutation_ready, step 3: registry.register; its return value, the
\* paths to delete, is not used.
patcher_activates(path) ==
    /\ path \in rt_disk
    /\ path \notin rt_activated
    /\ LET r == register_files(rt_family_files, path[1],
                               patcher_file_path(path), max_versions)
       IN  rt_family_files' = r.files
    /\ rt_activated' = rt_activated \cup {path}
    /\ UNCHANGED <<rt_disk, rt_written>>
    /\ UNCHANGED notRetention

NextRetention ==
    \/ \E f \in RtFamilies : mutation_file_written(f)
    \/ \E f \in RtFamilies, v \in 1..MaxVersionsWritten :
           patcher_activates(<<f, v>>)

SpecRetention == InitRetention /\ [][NextRetention]_vars

\* C38: an activated mutation's file is in its family's retention list or was
\* evicted from it and deleted, and a family has at most max_versions
\* activated files left.
C38_ActivatedFilesRetained ==
    \A f \in RtFamilies :
        LET listed == {rt_family_files[f][i] :
                          i \in 1..Len(rt_family_files[f])}
            mine == {path \in rt_activated : path[1] = f}
        IN  /\ \A path \in mine : path \in listed \/ path \notin rt_disk
            /\ Cardinality(mine \cap rt_disk) <= max_versions

\* ------------------------------------------ SpecTraitError, first report
\* Calls of execute_trait followed.
MaxTraitCalls == 4

\* The classes of the trait instances the entities carry, two of them of
\* the family energy_pulse.
TeClassNames == {"EnergyPulseTrait", "EnergyPulse", "Swarm"}

TeFamilies == {canonical_name(n) : n \in TeClassNames}

\* How trait.execute under wait_for ends.
TeOutcomes == {"returned", "timeout", "raised"}

InitTraitError ==
    /\ CycleAtRest
    /\ bus = <<>>
    /\ PatchAtRest
    /\ EngineAtRest
    /\ ManagerAtRest
    /\ WorldAtRest
    /\ ReapAtRest
    /\ RetentionAtRest
    /\ CoderAtRest
    /\ FitnessAtRest
    /\ LoadAtRest
    /\ PipeAtRest
    /\ ExecutorAtRest
    /\ EventBusAtRest
    /\ WatcherAtRest
    /\ ProposeAtRest
    /\ LoopAtRest
    /\ MoveAtRest
    /\ te_reported = {}
    /\ te_reports = [f \in TeFamilies |-> 0]
    /\ te_failures = [f \in TeFamilies |-> 0]
    /\ te_calls = 0

\* TraitExecutor.execute_trait calls on_trait_error in its except Exception
\* branch only; the except asyncio.TimeoutError branch logs and returns.
calls_on_trait_error(outcome) == outcome = "raised"

\* CoreEngine._on_trait_error: the key of _reported_trait_errors is the
\* trait_name it is given, which is trait.__class__.__name__.
reported_key(class) == class

\* execute_trait for an instance of the class, and the callback if called.
execute_trait(class, outcome) ==
    /\ te_calls < MaxTraitCalls
    /\ te_calls' = te_calls + 1
    /\ te_failures' =
           IF outcome = "returned" THEN te_failures
           ELSE [te_failures EXCEPT ![canonical_name(class)] = @ + 1]
    /\ IF calls_on_trait_error(outcome) /\ reported_key(class) \notin te_reported
       THEN /\ te_reported' = te_reported \cup {reported_key(class)}
            /\ te_reports' =
                   [te_reports EXCEPT ![canonical_name(class)] = @ + 1]
       ELSE UNCHANGED <<te_reported, te_reports>>
    /\ UNCHANGED notTraitError

NextTraitError ==
    \E class \in TeClassNames, outcome \in TeOutcomes :
        execute_trait(class, outcome)

SpecTraitError == InitTraitError /\ [][NextTraitError]_vars

\* C39: a family whose traits have failed, by timeout or by exception, has
\* been reported exactly once, and a family without failures never.
C39_ReportedOncePerFamily ==
    \A f \in TeFamilies :
        te_reports[f] = IF te_failures[f] > 0 THEN 1 ELSE 0

\* ------------------------------------------------- SpecReap, death causes
\* Entity 1 is a predator, the others are molbots.
MaxReapEntities == 3

ReapEntities == 1..MaxReapEntities

reap_type(e) == IF e = 1 THEN "predator" ELSE "molbot"

\* The keys _handle_deaths counts under.
DeathCauses == {"predator_death", "virus", "starvation"}

InitReap ==
    /\ CycleAtRest
    /\ bus = <<>>
    /\ PatchAtRest
    /\ EngineAtRest
    /\ ManagerAtRest
    /\ WorldAtRest
    /\ TraitErrorAtRest
    /\ RetentionAtRest
    /\ CoderAtRest
    /\ FitnessAtRest
    /\ LoadAtRest
    /\ PipeAtRest
    /\ ExecutorAtRest
    /\ EventBusAtRest
    /\ WatcherAtRest
    /\ ProposeAtRest
    /\ LoopAtRest
    /\ MoveAtRest
    /\ rp_state = [e \in ReapEntities |-> "alive"]
    /\ rp_infected = [e \in ReapEntities |-> FALSE]
    /\ rp_how = [e \in ReapEntities |-> "none"]
    /\ rp_counted = [e \in ReapEntities |-> "none"]
    /\ rp_death_stats = [c \in DeathCauses |-> 0]

\* _handle_deaths: the cause by entity_type and the infected flag.
death_cause(type, is_infected) ==
    IF type = "predator" THEN "predator_death"
    ELSE IF is_infected THEN "virus"
    ELSE "starvation"

\* The counted cause names the way the entity died; a dead predator, which
\* starved or died of age, has the one key predator_death.
cause_matches(cause, how, type) ==
    IF type = "predator" THEN cause = "predator_death"
    ELSE \/ how = "predator_kill" /\ cause = "predator_death"
         \/ how = "virus" /\ cause = "virus"
         \/ how = "starvation" /\ cause = "starvation"
         \/ how = "old_age" /\ cause = "old_age"

\* _handle_virus: a molbot is infected, or its infection timer runs out.
virus_spreads(e) ==
    /\ reap_type(e) = "molbot"
    /\ rp_state[e] = "alive"
    /\ rp_infected' = [rp_infected EXCEPT ![e] = ~@]
    /\ UNCHANGED <<rp_state, rp_how, rp_counted, rp_death_stats>>
    /\ UNCHANGED notReap

\* PredatorEntity.update: age has reached max_age (a molbot's max_age is 0,
\* it does not age to death).
dies_of_age(e) ==
    /\ reap_type(e) = "predator"
    /\ rp_state[e] = "alive"
    /\ rp_state' = [rp_state EXCEPT ![e] = "dead"]
    /\ rp_how' = [rp_how EXCEPT ![e] = "old_age"]
    /\ UNCHANGED <<rp_infected, rp_counted, rp_death_stats>>
    /\ UNCHANGED notReap

\* update: energy is at or below zero after metabolism and, for an infected
\* molbot, the infection penalty.
dies_of_energy(e) ==
    /\ rp_state[e] = "alive"
    /\ rp_state' = [rp_state EXCEPT ![e] = "dead"]
    /\ rp_how' = [rp_how EXCEPT ![e] =
                     IF rp_infected[e] THEN "virus" ELSE "starvation"]
    /\ UNCHANGED <<rp_infected, rp_counted, rp_death_stats>>
    /\ UNCHANGED notReap

\* _handle_predators: a predator touches the molbot and sets it dead.
predator_kills(e) ==
    /\ reap_type(e) = "molbot"
    /\ rp_state[e] = "alive"
    /\ rp_state' = [rp_state EXCEPT ![e] = "dead"]
    /\ rp_how' = [rp_how EXCEPT ![e] = "predator_kill"]
    /\ UNCHANGED <<rp_infected, rp_counted, rp_death_stats>>
    /\ UNCHANGED notReap

\* _handle_deaths: every dead entity is counted under its cause and removed.
reap_deaths ==
    LET dead == {e \in ReapEntities : rp_state[e] = "dead"}
    IN  /\ dead # {}
        /\ rp_counted' = [e \in ReapEntities |->
               IF e \in dead THEN death_cause(reap_type(e), rp_infected[e])
               ELSE rp_counted[e]]
        /\ rp_death_stats' = [c \in DeathCauses |->
               rp_death_stats[c] + Cardinality(
                   {e \in dead : death_cause(reap_type(e), rp_infected[e]) = c})]
        /\ rp_state' = [e \in ReapEntities |->
               IF e \in dead THEN "removed" ELSE rp_state[e]]
        /\ UNCHANGED <<rp_infected, rp_how>>
        /\ UNCHANGED notReap

NextReap ==
    \/ \E e \in ReapEntities : virus_spreads(e)
    \/ \E e \in ReapEntities : dies_of_age(e)
    \/ \E e \in ReapEntities : dies_of_energy(e)
    \/ \E e \in ReapEntities : predator_kills(e)
    \/ reap_deaths

SpecReap == InitReap /\ [][NextReap]_vars

\* C40: a reaped entity is counted under one cause, the one it died of.
C40_CauseMatchesDeath ==
    \A e \in ReapEntities :
        rp_state[e] = "removed" =>
            /\ rp_counted[e] \in DeathCauses
            /\ cause_matches(rp_counted[e], rp_how[e], reap_type(e))

====
